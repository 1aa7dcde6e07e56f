CONSTANTS
  d1 = d1
  k1 = k1
  Places = {p1, p2}
  Parties = {i1, i2}
  Documents = {d1}
  Codes = {k1}
  Entered <- MCEntered
  Files <- MCFiles
  MaxAttempts = 2
  Reqs = {r1, r2}
  Tables = {1, 2}
  Services = {"std"}
  Offers <- MCOffers
  Coverages = {1}
  Areas = {{"rt"}}
  Tariffs <- MCTariffs
  Loads <- MCLoads
  Sims = {1}
  Statuses = {"none"}
  Calls = {r1, r2}
  Carriers = {t1}
  Jobs = {j1, j2}
  Tenant <- MCTenant
  Uploads <- MCUploads
  Keys = {"a", "b"}
  Requests = {q1, q2}
SPECIFICATION LogisticsSpec
SYMMETRY Symmetry
INVARIANTS OneMain ImportedAddressOnce HistoryPreserved OneRangeApplies PriceExplained NamedFileIsWhole
PROPERTIES KeepsExisting
CHECK_DEADLOCK FALSE
