---------------------------- MODULE CheckDigits ----------------------------
(***************************************************************************)
(* The check digits of a CPF (eleven digits) and a CNPJ (fourteen), which  *)
(* the code computes in three places of its own: the import of customers   *)
(* compares digit by digit, CustomersService builds the number the digits  *)
(* should give, and the seed makes numbers. A number is the sequence of    *)
(* its digits.                                                             *)
(***************************************************************************)
EXTENDS Naturals, Sequences, SequencesExt

-----------------------------------------------------------------------------
(* CustomerImportHandler *)

Weighted(digits, weights) ==
  FoldLeft(LAMBDA sum, i : sum + digits[i] * weights[i], 0, [i \in DOMAIN weights |-> i])

\* checksum of a CPF: the weights go down from factor to 2, and the rest 10 counts as 0.
Checksum(digits, factor) ==
  LET result == (Weighted(digits, [i \in 1 .. factor - 1 |-> factor + 1 - i]) * 10) % 11
  IN IF result = 10 THEN 0 ELSE result

CnpjChecksum(digits, weights) ==
  LET result == Weighted(digits, weights) % 11
  IN IF result < 2 THEN 0 ELSE 11 - result

CnpjWeights == <<6, 5, 4, 3, 2, 9, 8, 7, 6, 5, 4, 3, 2>>

SameDigits(digits) == \A i \in DOMAIN digits : digits[i] = digits[1]

IsValidCpf(d) == ~SameDigits(d) /\ d[10] = Checksum(d, 10) /\ d[11] = Checksum(d, 11)

IsValidCnpj(d) ==
  ~SameDigits(d) /\ d[13] = CnpjChecksum(d, Tail(CnpjWeights)) /\ d[14] = CnpjChecksum(d, CnpjWeights)

IsValidDocument(d) == (Len(d) = 11 /\ IsValidCpf(d)) \/ (Len(d) = 14 /\ IsValidCnpj(d))

-----------------------------------------------------------------------------
(* CustomersService *)

CalculateCpfDigit(input) ==
  LET sum == FoldLeft(LAMBDA total, i : total + input[i] * (Len(input) + 2 - i), 0,
                      [i \in DOMAIN input |-> i])
      remainder == (sum * 10) % 11
  IN IF remainder = 10 THEN 0 ELSE remainder

CalculateCnpjDigit(input, weights) ==
  LET remainder == Weighted(input, weights) % 11 IN IF remainder < 2 THEN 0 ELSE 11 - remainder

CustomerCpf(d) ==
  LET first == Append(SubSeq(d, 1, 9), CalculateCpfDigit(SubSeq(d, 1, 9)))
  IN ~SameDigits(d) /\ d = Append(first, CalculateCpfDigit(first))

CustomerCnpj(d) ==
  LET first == Append(SubSeq(d, 1, 12), CalculateCnpjDigit(SubSeq(d, 1, 12), Tail(CnpjWeights)))
  IN ~SameDigits(d) /\ d = Append(first, CalculateCnpjDigit(first, CnpjWeights))

\* normalizeDocument makes a number without digits none, which is allowed.
ValidateDocument(d) ==
  d = << >> \/ (Len(d) = 11 /\ CustomerCpf(d)) \/ (Len(d) = 14 /\ CustomerCnpj(d))

-----------------------------------------------------------------------------
(* The seed *)

\* cnpj: twelve digits of the base, filled up with zeros, and two check digits.
Cnpj(base) ==
  LET digits == SubSeq(base \o [i \in 1 .. 12 |-> 0], 1, 12)
      digit(value, weights) == LET mod == Weighted(value, weights) % 11 IN IF mod < 2 THEN 0 ELSE 11 - mod
      first == Append(digits, digit(digits, Tail(CnpjWeights)))
  IN Append(first, digit(first, CnpjWeights))
=============================================================================
