------------------------------- MODULE MCWeb -------------------------------
(* Three pages of the web application. They share nothing, and each property *)
(* is about one of them: one moves, the others are at rest (part).           *)
EXTENDS Realtime, Workspace, CustomerPage

VARIABLE part

WebVars == <<realtimeVars, workspaceVars, customerVars, part>>

WebInit ==
  /\ part \in {"realtime", "workspace", "customers"}
  /\ RealtimeInit
  /\ WorkspaceInit
  /\ PageInit
  /\ part # "realtime" => (page = "detail" /\ role = "MANAGER" /\ runner)
  /\ part # "customers" => (stored = << >> /\ ~excused)

\* Bound: a second simulation is asked for only while every customer stays active.
Bounded == active' # Customers => asked' <= 1

WebNext ==
  /\ UNCHANGED part
  /\ \/ part = "realtime" /\ RealtimeNext /\ UNCHANGED <<workspaceVars, customerVars>>
     \/ part = "workspace" /\ WorkspaceNext /\ Bounded /\ UNCHANGED <<realtimeVars, customerVars>>
     \/ part = "customers" /\ PageNext /\ UNCHANGED <<realtimeVars, workspaceVars>>

WebSpec == WebInit /\ [][WebNext]_WebVars /\ RealtimeFairness
=============================================================================
