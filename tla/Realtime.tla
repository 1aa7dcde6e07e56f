------------------------------ MODULE Realtime ------------------------------
(***************************************************************************)
(* How one open page of the web application follows an import job: the     *)
(* socket of NotificationsGateway, the events the import worker emits, and *)
(* the queries of the page. The page is ImportDetail, which polls while    *)
(* its socket is closed, or DashboardSummary, which never polls and whose  *)
(* server keeps its answers in a cache.                                    *)
(*                                                                         *)
(* The job is abstracted to the number of changes written so far: 0 is     *)
(* PENDING, Final is COMPLETED, FAILED or CANCELED. An event carries       *)
(* nothing the pages use but the id of the job: they fetch again. A fetch  *)
(* is a query of TanStack Query: an event that finds the first one still   *)
(* under way adds no other, one that finds a later one restarts it.        *)
(***************************************************************************)
EXTENDS Integers

CONSTANTS
  Final,       \* writes of a job until it is final
  MaxFaults,   \* bound: lost connections and failed fetches
  MaxViews     \* bound: summaries asked for by other users of the tenant

ASSUME RealtimeAssumption == Final \in Nat \ {0} /\ MaxFaults \in Nat /\ MaxViews \in Nat

VARIABLES
  page,       \* the page that is open
  role,       \* the role of its user
  runner,     \* the run of the job was asked for by this user
  job,        \* changes of the job written so far
  owed,       \* events the worker has yet to emit
  silent,     \* the job was canceled before a worker had it: no event follows
  server,     \* the socket as the gateway has it
  connected,  \* the page believes it is connected
  refused,    \* the gateway closed the socket: the client does not try again
  join,       \* tenant:join is on its way
  link,       \* events on their way to the page
  fetch,      \* the query of the page
  got,        \* what the query has read
  shown,      \* what the page shows, -1 for nothing yet
  cancel,     \* the cancel request of the page
  cache,      \* the summary in Redis, -1 for none
  other,      \* the summary being calculated for another user, -1 for none
  behind,     \* history: the cache answered with figures older than the data
  faults,     \* history: faults so far
  views       \* history: summaries other users asked for

realtimeVars == <<page, role, runner, job, owed, silent, server, connected, refused, join,
                  link, fetch, got, shown, cancel, cache, other, behind, faults, views>>

workerVars == <<job, owed, silent>>
socketVars == <<server, connected, refused, join>>
queryVars == <<fetch, got, shown>>
cacheVars == <<cache, other, behind, views>>
fixed == <<page, role, runner>>

None == -1

RealtimeInit ==
  /\ page \in {"detail", "dashboard"}
  /\ role \in {"MANAGER", "OPERATOR"}
  /\ runner \in BOOLEAN
  /\ job = 0 /\ owed = 0 /\ silent = FALSE
  /\ server = "none" /\ connected = FALSE /\ refused = FALSE /\ join = FALSE
  /\ link = 0
  /\ fetch = "asked" /\ got = None /\ shown = None
  /\ cancel = "none"
  /\ cache = None /\ other = None /\ behind = FALSE
  /\ faults = 0 /\ views = 0

-----------------------------------------------------------------------------
(* The worker. *)

\* process writes the job, then emits; the next write follows the emission.
Write ==
  /\ job < Final /\ owed = 0
  /\ job' = job + 1 /\ owed' = 1
  /\ UNCHANGED <<fixed, silent, socketVars, link, queryVars, cancel, cacheVars, faults>>

\* Import events go to the room of the tenant and to that of the user who asked
\* for the run; dashboard.refresh, after a final status, to the tenant's only.
\* A manager is in the first room, an operator in the room of that user alone.
Hears ==
  IF page = "detail" THEN role = "MANAGER" \/ runner
                     ELSE role = "MANAGER" /\ job = Final

Emit ==
  /\ owed > 0
  /\ owed' = owed - 1
  /\ link' = IF server = "joined" /\ Hears THEN link + 1 ELSE link
  /\ UNCHANGED <<fixed, job, silent, socketVars, queryVars, cancel, cacheVars, faults>>

\* cancel writes the status and emits nothing: a worker that has the job emits
\* when it sees it, and a job still in the queue is removed from there.
Canceled ==
  /\ job < Final
  /\ job' = Final
  /\ silent' = (job = 0)
  /\ owed' = IF job = 0 THEN owed ELSE owed + 1

CancelElsewhere ==
  /\ Canceled
  /\ UNCHANGED <<fixed, socketVars, link, queryVars, cancel, cacheVars, faults>>

-----------------------------------------------------------------------------
(* The socket. *)

Fault ==
  /\ faults < MaxFaults
  /\ faults' = faults + 1

\* The connect event of the client: it stops polling and asks to join at once,
\* while handleConnection is still looking for the user.
Connect ==
  /\ server = "none" /\ ~connected /\ ~refused
  /\ server' = "checking" /\ connected' = TRUE /\ join' = TRUE
  /\ UNCHANGED <<fixed, workerVars, refused, link, queryVars, cancel, cacheVars, faults>>

\* The end of handleConnection: the user is active, or the socket is closed.
Authenticate ==
  /\ server = "checking"
  /\ \/ server' = "known" /\ UNCHANGED <<refused, join>>
     \/ server' = "none" /\ refused' = TRUE /\ join' = FALSE
  /\ UNCHANGED <<fixed, workerVars, connected, link, queryVars, cancel, cacheVars, faults>>

\* A join that comes before the user is known is answered ok: false.
JoinTenantRoom ==
  /\ join
  /\ join' = FALSE
  /\ server' = IF server = "known" THEN "joined" ELSE server
  /\ UNCHANGED <<fixed, workerVars, connected, refused, link, queryVars, cancel, cacheVars, faults>>

\* The connection is lost, with what was on its way.
Drop ==
  /\ server # "none" /\ Fault
  /\ server' = "none" /\ join' = FALSE /\ link' = 0
  /\ UNCHANGED <<fixed, workerVars, connected, refused, queryVars, cancel, cacheVars>>

\* The client's disconnect event: it polls again.
Disconnected ==
  /\ server = "none" /\ connected
  /\ connected' = FALSE
  /\ UNCHANGED <<fixed, workerVars, server, refused, join, link, queryVars, cancel, cacheVars, faults>>

-----------------------------------------------------------------------------
(* The page. *)

Ask == fetch' = "asked" /\ UNCHANGED <<got, shown>>

\* Faulty variant: an event that finds a fetch under way adds nothing to it.
HandleProgressOnce ==
  /\ link > 0
  /\ link' = link - 1
  /\ IF fetch # "idle" THEN UNCHANGED queryVars ELSE Ask
  /\ UNCHANGED <<fixed, workerVars, socketVars, cancel, cacheVars, faults>>

HandleProgress ==
  /\ link > 0
  /\ link' = link - 1
  /\ IF fetch # "idle" /\ shown = None THEN UNCHANGED queryVars ELSE Ask
  /\ UNCHANGED <<fixed, workerVars, socketVars, cancel, cacheVars, faults>>

\* Faulty variant: the page polls only while it has nothing to show.
PollUntilShown ==
  /\ page = "detail" /\ ~connected /\ fetch = "idle" /\ shown = None
  /\ Ask
  /\ UNCHANGED <<fixed, workerVars, socketVars, link, cancel, cacheVars, faults>>

\* refetchInterval, every 5 s while the socket is closed and the tab is visible: a
\* hidden one goes on when the user is back.
Poll ==
  /\ page = "detail" /\ ~connected /\ fetch = "idle"
  /\ Ask
  /\ UNCHANGED <<fixed, workerVars, socketVars, link, cancel, cacheVars, faults>>

\* The user comes back to the window or asks for the data again.
Refetch ==
  /\ fetch = "idle" /\ Ask
  /\ UNCHANGED <<fixed, workerVars, socketVars, link, cancel, cacheVars, faults>>

\* The server answers from the database, or the dashboard's from its cache.
Read ==
  /\ fetch = "asked"
  /\ IF page = "dashboard" /\ cache # None
     THEN /\ fetch' = "read" /\ got' = cache
          /\ behind' = (behind \/ cache < job)
     ELSE /\ fetch' = IF page = "dashboard" THEN "calculated" ELSE "read"
          /\ got' = job
          /\ UNCHANGED behind
  /\ UNCHANGED <<fixed, workerVars, socketVars, link, shown, cancel, cache, other, views, faults>>

WriteCache ==
  /\ fetch = "calculated"
  /\ fetch' = "read" /\ cache' = got
  /\ UNCHANGED <<fixed, workerVars, socketVars, link, got, shown, cancel, other, behind, views, faults>>

Show ==
  /\ fetch = "read"
  /\ fetch' = "idle" /\ shown' = got
  /\ UNCHANGED <<fixed, workerVars, socketVars, link, got, cancel, cacheVars, faults>>

FetchFails ==
  /\ fetch # "idle" /\ Fault
  /\ fetch' = "idle"
  /\ UNCHANGED <<fixed, workerVars, socketVars, link, got, shown, cancel, cacheVars>>

\* The cancel button of ImportDetail, offered while the job shown is not final.
CancelClick ==
  /\ page = "detail" /\ cancel = "none" /\ shown \in 0 .. Final - 1
  /\ cancel' = "sent"
  /\ UNCHANGED <<fixed, workerVars, socketVars, link, queryVars, cacheVars, faults>>

CancelServed ==
  /\ cancel = "sent"
  /\ IF job < Final THEN Canceled /\ cancel' = "served"
                    ELSE cancel' = "none" /\ UNCHANGED workerVars
  /\ UNCHANGED <<fixed, socketVars, link, queryVars, cacheVars, faults>>

\* onSuccess puts the canceled job in place; a fetch under way is not stopped.
CancelAnswered ==
  /\ cancel = "served"
  /\ cancel' = "none" /\ shown' = Final
  /\ UNCHANGED <<fixed, workerVars, socketVars, link, fetch, got, cacheVars, faults>>

-----------------------------------------------------------------------------
(* The cache of DashboardService. *)

\* Another user of this role and these filters asks for the summary.
OtherReads ==
  /\ page = "dashboard" /\ cache = None /\ other = None /\ views < MaxViews
  /\ other' = job /\ views' = views + 1
  /\ UNCHANGED <<fixed, workerVars, socketVars, link, queryVars, cancel, cache, behind, faults>>

OtherWrites ==
  /\ other # None
  /\ cache' = other /\ other' = None
  /\ UNCHANGED <<fixed, workerVars, socketVars, link, queryVars, cancel, behind, views, faults>>

\* CACHE_TTL_SECONDS are over.
CacheExpires ==
  /\ cache # None
  /\ cache' = None
  /\ UNCHANGED <<fixed, workerVars, socketVars, link, queryVars, cancel, other, behind, views, faults>>

-----------------------------------------------------------------------------
RealtimeNext ==
  \/ Write \/ Emit \/ CancelElsewhere
  \/ Connect \/ Authenticate \/ JoinTenantRoom \/ Drop \/ Disconnected
  \/ HandleProgress \/ Poll \/ Refetch \/ Read \/ WriteCache \/ Show \/ FetchFails
  \/ CancelClick \/ CancelServed \/ CancelAnswered
  \/ OtherReads \/ OtherWrites \/ CacheExpires

\* The worker, the network, the server and the timers go on; the user and the
\* connection of the socket need not.
RealtimeFairness ==
  /\ WF_realtimeVars(Write) /\ WF_realtimeVars(Emit)
  /\ WF_realtimeVars(Authenticate) /\ WF_realtimeVars(JoinTenantRoom) /\ WF_realtimeVars(Disconnected)
  /\ WF_realtimeVars(HandleProgress) /\ WF_realtimeVars(Poll)
  /\ WF_realtimeVars(Read) /\ WF_realtimeVars(WriteCache) /\ WF_realtimeVars(Show)
  /\ WF_realtimeVars(CancelServed) /\ WF_realtimeVars(CancelAnswered)
  /\ WF_realtimeVars(OtherWrites) /\ WF_realtimeVars(CacheExpires)

\* The fallback of ImportDetail (refetchInterval): a page whose socket stays closed
\* shows in the end that the job is over, whatever events, connections and fetches
\* were lost before, as far as its tab is not hidden for good.
PollingCatchesUp == (page = "detail" /\ <>[]~connected) => <>[](shown = Final)

\* What the events are for: a page with data that stays in a room which is told of
\* the job shows that it is over. It need not if the job was canceled in the queue,
\* if a fetch fails, or if the dashboard was answered from its cache.
JoinedCatchesUp ==
  (server = "joined" /\ shown # None /\ job < Final /\ (role = "MANAGER" \/ (page = "detail" /\ runner)))
    ~> (shown = Final \/ server # "joined" \/ silent \/ faults > 0 \/ behind)

\* What realtime.md asks of the front end, to keep polling or fetching again as a
\* fallback: ImportDetail shows in the end that the job is over.
PageCatchesUp == page = "detail" => <>[](shown = Final)
=============================================================================
