---------------------------- MODULE ProcessMonitor ----------------------------
(***************************************************************************)
(* The processing monitor of the dashboard: the page that lists the        *)
(* transfers (or the SIPs), follows them by polling and lets the user      *)
(* answer the decisions their jobs await.  A page is one thread whose      *)
(* asynchronous functions interleave at every await, so an action here is  *)
(* what runs between two awaits of useProcessingMonitor.ts (the polling of *)
(* summaries) and of ProcessMonitor.vue (the lazy loading of the jobs of   *)
(* an expanded unit, and the choices).  MCPServer and the dashboard views  *)
(* that answer the page are reduced to what their answers say of a job:    *)
(* its row is absent, awaits a decision, or is past it; and of its unit:   *)
(* whether other jobs have rows.                                           *)
(*                                                                         *)
(* A job's status only grows.  None: no row yet.  Marked: the row awaits a *)
(* decision, but the job is not in waiting_choices yet.  Offered: it is.   *)
(* Over: the row says something else.  Gone: a restart deleted it.  An     *)
(* answer reads the rows and waiting_choices at one moment here, one after *)
(* the other in the code.                                                  *)
(***************************************************************************)
EXTENDS Naturals, FiniteSets

CONSTANTS
    Units,      \* the units MCPServer knows
    Jobs,       \* the jobs of theirs that ask for a decision
    UnitOf,     \* the unit of each job
    Types,      \* the unit types a page may be opened for
    MaxErrors   \* bound: requests that fail for a reason of their own

ASSUME UnitOfAssumption == UnitOf \in [Jobs -> Units]
ASSUME TypesAssumption == Types \subseteq {"Transfer", "SIP"}
ASSUME MaxErrorsAssumption == MaxErrors \in Nat

None == 0
Marked == 1
Offered == 2
Over == 3
Gone == 4
Status == None .. Gone

JobsOf(u) == {j \in Jobs : UnitOf[j] = u}

VARIABLES
    unitType,   \* the type of the units of this page
    status,     \* MCPServer: what is known of each job
    progress,   \* MCPServer: "queued", no job of the unit's but those of Jobs has a
                \* row; "begun", one has; "failed", the transfer failed before
    hidden,     \* the units removed from the monitor
    mounted, visible,   \* the page is open, and its tab is in front
    interval,   \* pollingIntervalTimer is set
    sooner,     \* acceleratedPollingTimer is set
    isRefreshing,
    refreshes,  \* the summaries requests under way
    removing,   \* confirmRemoveUnit waits for its 250 ms
    shown,      \* units: those of the last summary applied
    seen,       \* ... the status it gave to each job
    waits,      \* ... and the units it said to wait for processing
    rows,       \* unit.jobs: the status the loaded groups gave to each job
    expanded,   \* expandedUnitUuids
    loading,    \* loadingUnitGroupUuids
    loads,      \* the job-groups requests under way
    pending,    \* pendingUnitGroupReloadUuids
    executing,  \* executingChoiceUnitUuids: "no", "sent", "done", "refused"
    uploading,  \* jobs whose choice waits for setUploadTarget
    resolved,   \* resolvedChoiceJobUuids
    settled,    \* history: units whose jobs were answered since they were opened or
                \* decided on, with an error perhaps, which the next poll retries
    errors

server == <<unitType, status, progress, hidden>>
timers == <<interval, sooner>>
requests == <<isRefreshing, refreshes>>
page == <<mounted, visible, removing, shown, seen, waits, expanded>>
groups == <<rows, loading, loads, pending, settled>>
choices == <<executing, uploading, resolved>>
vars == <<server, timers, requests, page, groups, choices, errors>>

\* A transfer may fail without a job; to a SIP without one it changes nothing.
FailedBefore == {p \in {"failed"} : unitType = "Transfer"}

(* What MCPServer answers *)

\* A summary tells that a row awaits a decision, not whether a choice is offered.
Summary(s) == CASE s = None -> None
                [] s \in {Marked, Offered} -> Marked
                [] s \in {Over, Gone} -> Over

\* has_jobs: some job of the unit has a row.
HasJobs(u) == \/ progress[u] = "begun"
              \/ \E j \in JobsOf(u) : status[j] \notin {None, Gone}

\* A transfer is listed when it is processing or has failed, a SIP from its
\* first job of any kind.
Listed(u) == u \notin hidden /\ (unitType = "Transfer" \/ HasJobs(u))

\* done(): the package is done, or has failed.
Done(u) == \/ progress[u] = "failed"
           \/ HasJobs(u) /\ \A j \in JobsOf(u) : status[j] >= Over

\* processing_state: the transfer is processing, and has no job yet.
WaitsForProcessing(u) ==
    Listed(u) /\ unitType = "Transfer" /\ ~HasJobs(u) /\ progress[u] = "queued"

Summaries == [units |-> {u \in Units : Listed(u)},
              seen |-> [j \in Jobs |-> IF Listed(UnitOf[j])
                                       THEN Summary(status[j]) ELSE None],
              waits |-> {u \in Units : WaitsForProcessing(u)}]

\* A request is answered in two steps: read by the server, and back in the page.
\* That of the summaries tells what follows it, that of a unit's jobs whether
\* its generation is still the current one.
SummariesRequest(then) ==
    [then |-> then, read |-> FALSE,
     said |-> [units |-> {}, seen |-> [j \in Jobs |-> None], waits |-> {}]]

NoGroups == [j \in {} |-> None]

GroupsRequest(u) ==
    [unit |-> u, current |-> TRUE, read |-> FALSE, said |-> NoGroups]

(* What the page makes of it *)

Busy(u) == \E j \in JobsOf(u) : executing[j] # "no"

\* getCurrentDecisionJob: the decision the page offers and still accepts.
Current(j) == /\ mounted
              /\ executing[j] = "no"
              /\ UnitOf[j] \in shown
              /\ j \notin resolved
              /\ seen[j] = Marked
              /\ rows[j] = Offered

-----------------------------------------------------------------------------
(* Timers, useProcessingMonitor.ts *)

\* Mutation of StartPolling: an accelerated timer does not keep it from starting.
StartAnyway == interval' = (interval \/ (mounted' /\ visible'))

StartPolling == interval' = (interval \/ (~sooner' /\ mounted' /\ visible'))

\* Mutation of RequestSoonerPoll: the guard on disposed is missing.
RequestAlways == IF visible THEN interval' = FALSE /\ sooner' = TRUE
                            ELSE UNCHANGED timers

RequestSoonerPoll == IF mounted /\ visible
                     THEN interval' = FALSE /\ sooner' = TRUE
                     ELSE UNCHANGED timers

\* Mutation of Refresh: a second request goes out beside the first.
RefreshAgain(then) ==
    IF mounted
    THEN isRefreshing' = TRUE /\ refreshes' = refreshes \cup {SummariesRequest(then)}
    ELSE UNCHANGED requests

\* refresh: one request at a time, none once the page is gone.
Refresh(then) ==
    IF mounted /\ ~isRefreshing
    THEN isRefreshing' = TRUE /\ refreshes' = refreshes \cup {SummariesRequest(then)}
    ELSE UNCHANGED requests

(* The lazy request for the jobs of a unit, ProcessMonitor.vue *)

\* invalidateUnitJobGroupsRequest: the answers of the requests rs to the units us
\* will not be applied.
Invalidate(us, rs) ==
    {[r EXCEPT !.current = @ /\ r.unit \notin us] : r \in rs}

\* Mutation of Load: a forced request that finds one under way is dropped.
LoadOnce(us, forced, obsolete, ended) ==
    LET done == {r.unit : r \in ended}
        idle == {u \in us : mounted /\ ~Busy(u)' /\ u \notin loading \ done}
    IN /\ loading' = (loading \ done) \cup idle
       /\ loads' = Invalidate(obsolete, loads \ ended)
                   \cup {GroupsRequest(u) : u \in idle}
       /\ pending' = pending \ (obsolete \cup done \cup idle)

\* Mutation of Load: a request that became obsolete leaves its mark when it ends.
LoadMarked(us, forced, obsolete, ended) ==
    LET done == {r.unit : r \in {e \in ended : e.current}}
        may == {u \in us : mounted /\ ~Busy(u)'}
        idle == may \ (loading \ done)
    IN /\ loading' = (loading \ done) \cup idle
       /\ loads' = Invalidate(obsolete, loads \ ended)
                   \cup {GroupsRequest(u) : u \in idle}
       /\ pending' = ((pending \ (obsolete \cup done))
                         \cup (may \cap forced)) \ idle

\* Mutation of Load: nothing tells that a request is under way.
LoadTwice(us, forced, obsolete, ended) ==
    LET done == {r.unit : r \in ended}
        idle == {u \in us : mounted /\ ~Busy(u)'}
    IN /\ loading' = (loading \ done) \cup idle
       /\ loads' = Invalidate(obsolete, loads \ ended)
                   \cup {GroupsRequest(u) : u \in idle}
       /\ pending' = pending \ (obsolete \cup done \cup idle)

\* loadUnitJobGroups up to its await, for the units us, with forceReload for the
\* forced ones, once the requests to the obsolete units are invalidated and the
\* ended ones are over.  There is none while a choice of the unit is executed;
\* one under way is followed by another if that is forced.
Load(us, forced, obsolete, ended) ==
    LET done == {r.unit : r \in ended}
        may == {u \in us : mounted /\ ~Busy(u)'}
        idle == may \ (loading \ done)
    IN /\ loading' = (loading \ done) \cup idle
       /\ loads' = Invalidate(obsolete, loads \ ended)
                   \cup {GroupsRequest(u) : u \in idle}
       /\ pending' = ((pending \ (obsolete \cup done))
                         \cup (may \cap forced)) \ idle

-----------------------------------------------------------------------------
\* The page is opened at any moment of the server's, in front or not.
Init ==
    /\ unitType \in Types
    /\ status \in [Jobs -> Status]
    /\ progress \in [Units -> {"queued", "begun"} \cup FailedBefore]
    /\ \A j \in Jobs : Summary(status[j]) = Marked => progress[UnitOf[j]] # "failed"
    /\ hidden = {}
    /\ mounted = TRUE
    /\ visible \in BOOLEAN
    /\ interval = visible
    /\ sooner = FALSE
    /\ isRefreshing = visible
    /\ refreshes = IF visible THEN {SummariesRequest("nothing")} ELSE {}
    /\ removing = FALSE
    /\ shown = {}
    /\ seen = [j \in Jobs |-> None]
    /\ waits = {}
    /\ rows = [j \in Jobs |-> None]
    /\ expanded = {}
    /\ loading = {}
    /\ loads = {}
    /\ pending = {}
    /\ executing = [j \in Jobs |-> "no"]
    /\ uploading = {}
    /\ resolved = {}
    /\ settled = {}
    /\ errors = 0

(* MCPServer *)

\* The jobs of a unit that is processing: a row appears, is offered, another
\* user or an answer that was given up decides it, and the row moves on.
Proceed(j) ==
    /\ status[j] < Over
    /\ progress[UnitOf[j]] # "failed"
    /\ status' = [status EXCEPT ![j] = @ + 1]
    /\ UNCHANGED <<unitType, progress, hidden, timers, requests, page, groups,
                   choices, errors>>

Becomes(u, p) ==
    /\ progress' = [progress EXCEPT ![u] = p]
    /\ UNCHANGED <<unitType, status, hidden, timers, requests, page, groups,
                   choices, errors>>

\* Another job of the unit starts, or the transfer fails before its first.
Begin(u) == u \notin hidden /\ progress[u] = "queued" /\ Becomes(u, "begun")
FailToStart(u) == /\ progress[u] = "queued"
                  /\ ~HasJobs(u)
                  /\ \E p \in FailedBefore : Becomes(u, p)

\* A restart deletes the rows that await a decision and fails the packages that
\* were processing; those it finds in a watched directory are processing again.
Restart ==
    /\ \E j \in Jobs : Summary(status[j]) = Marked
    /\ status' = [j \in Jobs |-> IF Summary(status[j]) = Marked THEN Gone
                                 ELSE status[j]]
    /\ \E found \in SUBSET Units :
          progress' = [u \in Units |->
              IF progress[u] = "queued" /\ u \notin found /\ unitType = "Transfer"
              THEN "failed" ELSE progress[u]]
    /\ UNCHANGED <<unitType, hidden, timers, requests, page, groups, choices,
                   errors>>

(* The summaries *)

\* The interval fires; while a request is under way it does nothing.
Tick ==
    /\ interval
    /\ Refresh("nothing")
    /\ UNCHANGED <<server, timers, page, groups, choices, errors>>

\* The accelerated timer fires: refresh, then startPolling.  A refresh that
\* finds another under way is over at once.
SoonerFires ==
    /\ sooner
    /\ sooner' = FALSE
    /\ UNCHANGED <<server, page, groups, choices, errors>>
    /\ Refresh("polling")
    /\ IF isRefreshing THEN StartPolling ELSE UNCHANGED interval

ReadSummaries(r) ==
    /\ ~r.read
    /\ refreshes' = (refreshes \ {r})
                      \cup {[r EXCEPT !.read = TRUE, !.said = Summaries]}
    /\ UNCHANGED <<server, timers, isRefreshing, page, groups, choices, errors>>

\* The end of refresh, and what follows it where it was called.
EndRefresh(r) ==
    /\ isRefreshing' = FALSE
    /\ refreshes' = refreshes \ {r}
    /\ UNCHANGED <<mounted, visible>>
    /\ CASE r.then = "polling" -> UNCHANGED sooner /\ StartPolling
         [] r.then = "sooner" -> RequestSoonerPoll
         [] r.then = "nothing" -> UNCHANGED timers

\* upsertUnits, then the two watchers: what is known of the units that are
\* gone or has yet to start is dropped, the opened unit is loaded again.  An
\* answer that tells of no change is one that says the same again (one without
\* any data, which starts no load, is left out).
ApplySummaries(r) ==
    LET gone == Units \ r.said.units
        closed == gone \cup r.said.waits
    IN /\ r.read
       /\ EndRefresh(r)
       /\ shown' = r.said.units
       /\ seen' = r.said.seen
       /\ waits' = r.said.waits
       /\ rows' = [j \in Jobs |-> IF UnitOf[j] \in gone THEN None ELSE rows[j]]
       /\ UNCHANGED <<server, removing, settled, executing, uploading, errors>>
       /\ IF mounted
          THEN /\ expanded' = expanded \ closed
               /\ resolved' = {j \in resolved : UnitOf[j] \notin gone}
               /\ Load(expanded', {}, closed, {})
          ELSE UNCHANGED <<expanded, resolved, loading, loads, pending>>

FailSummaries(r) ==
    /\ errors < MaxErrors
    /\ errors' = errors + 1
    /\ EndRefresh(r)
    /\ UNCHANGED <<server, removing, shown, seen, waits, expanded, groups, choices>>

\* The tab goes to the background, and comes back.
HideTab ==
    /\ mounted
    /\ visible
    /\ visible' = FALSE
    /\ interval' = FALSE
    /\ sooner' = FALSE
    /\ UNCHANGED <<server, requests, mounted, removing, shown, seen, waits, expanded,
                   groups, choices, errors>>

ShowTab ==
    /\ mounted
    /\ ~visible
    /\ visible' = TRUE
    /\ UNCHANGED <<server, sooner, mounted, removing, shown, seen, waits, expanded,
                   groups, choices, errors>>
    /\ Refresh("nothing")
    /\ StartPolling

\* The page is left; its requests still answer.
Unmount ==
    /\ mounted
    /\ mounted' = FALSE
    /\ interval' = FALSE
    /\ sooner' = FALSE
    /\ UNCHANGED <<server, requests, visible, removing, shown, seen, waits, expanded,
                   groups, choices, errors>>

\* The transfer browser, on the page of the transfers, started one.
TransferStarted ==
    /\ unitType = "Transfer"
    /\ mounted
    /\ RequestSoonerPoll
    /\ UNCHANGED <<server, requests, page, groups, choices, errors>>

\* confirmRemoveUnit: the dashboard hides a unit that is done, and 250 ms later
\* a refresh is awaited before the accelerated poll is requested.
RemoveUnit(u) ==
    /\ mounted
    /\ u \in shown \ hidden
    /\ Done(u)
    /\ ~removing
    /\ removing' = TRUE
    /\ hidden' = hidden \cup {u}
    /\ UNCHANGED <<unitType, status, progress, timers, requests, mounted, visible,
                   shown, seen, waits, expanded, groups, choices, errors>>

RefreshRemoved ==
    /\ removing
    /\ removing' = FALSE
    /\ UNCHANGED <<server, mounted, visible, shown, seen, waits, expanded, groups,
                   choices, errors>>
    /\ Refresh("sooner")
    /\ IF isRefreshing THEN RequestSoonerPoll ELSE UNCHANGED timers

(* The jobs of a unit *)

\* toggleUnit: one unit is open at a time, and what was asked for the one that
\* closes is not applied.
Toggle(u) ==
    /\ mounted
    /\ u \in shown \ waits
    /\ UNCHANGED <<server, timers, requests, mounted, visible, removing, shown,
                   seen, waits, rows, choices, errors>>
    /\ expanded' = IF u \in expanded THEN {} ELSE {u}
    /\ Load(expanded', expanded', expanded, {})
    /\ settled' = settled \ {u}

\* The dashboard answers 404 for a unit that is hidden.
ReadGroups(r) ==
    /\ ~r.read
    /\ loads' = (loads \ {r})
          \cup {[r EXCEPT !.read = TRUE,
                          !.said = IF r.unit \in hidden THEN NoGroups
                                   ELSE [j \in JobsOf(r.unit) |-> status[j]]]}
    /\ UNCHANGED <<server, timers, requests, page, rows, loading, pending,
                   settled, choices, errors>>

\* After the await of loadUnitJobGroups, with an answer or an error: applied if
\* nothing made it obsolete, and followed by the reload asked for meanwhile.
EndLoad(r, said) ==
    LET current == mounted /\ r.current
    IN /\ UNCHANGED <<server, timers, requests, page, choices>>
       /\ rows' = [j \in Jobs |->
                      IF current /\ UnitOf[j] \in shown /\ j \in DOMAIN said
                      THEN said[j] ELSE rows[j]]
       /\ Load(pending \cap expanded \cap {r.unit}, {}, {}, {r})
       /\ settled' = IF current THEN settled \cup {r.unit} ELSE settled

ApplyGroups(r) ==
    /\ r.read
    /\ EndLoad(r, r.said)
    /\ UNCHANGED errors

FailGroups(r) ==
    /\ errors < MaxErrors
    /\ errors' = errors + 1
    /\ EndLoad(r, NoGroups)

(* Choices *)

\* executeMcpChoice up to its await: the answer to a request for the jobs under
\* way will not be applied.
Execute(j) ==
    /\ executing' = [executing EXCEPT ![j] = "sent"]
    /\ Load({}, {}, {UnitOf[j]}, {})
    /\ settled' = settled \ {UnitOf[j]}
    /\ UNCHANGED <<rows, resolved>>

Choose(j) ==
    /\ Current(j)
    /\ Execute(j)
    /\ UNCHANGED <<server, timers, requests, page, uploading, errors>>

\* executeAtomUploadChoice: the target is set first, and the decision may no
\* longer be current when the answer comes.
ChooseUpload(j) ==
    /\ unitType = "SIP"
    /\ Current(j)
    /\ j \notin uploading
    /\ uploading' = uploading \cup {j}
    /\ UNCHANGED <<server, timers, requests, page, groups, executing, resolved,
                   errors>>

EndUpload(j) ==
    /\ j \in uploading
    /\ uploading' = uploading \ {j}
    /\ \/ Current(j) /\ Execute(j)
       \/ UNCHANGED <<groups, executing, resolved>>  \* refused, or too late
    /\ UNCHANGED <<server, timers, requests, page, errors>>

\* approveJob: the job leaves waiting_choices; scheduling what follows it may
\* still raise, and what is no longer awaited is refused.
Approve(j) ==
    /\ executing[j] = "sent"
    /\ status' = [status EXCEPT ![j] = IF @ = Offered THEN Over ELSE @]
    /\ \E reply \in {"done", "refused"} :
           /\ reply = "done" => status[j] = Offered
           /\ executing' = [executing EXCEPT ![j] = reply]
    /\ UNCHANGED <<unitType, progress, hidden, timers, requests, page, groups,
                   uploading, resolved, errors>>

\* The request is given up, whether or not MCPServer took or takes it.
LoseChoice(j) ==
    /\ executing[j] \in {"sent", "done"}
    /\ errors < MaxErrors
    /\ errors' = errors + 1
    /\ executing' = [executing EXCEPT ![j] = "refused"]
    /\ UNCHANGED <<server, timers, requests, page, groups, uploading, resolved>>

\* After the await of executeMcpChoice: the choice is resolved or may be tried
\* again, the summaries are polled sooner, the jobs of the unit asked for.  What
\* markChoiceResolved writes over the status displayed is what "resolved" hides.
EndChoice(j) ==
    /\ executing[j] \in {"done", "refused"}
    /\ UNCHANGED <<server, requests, page, rows, settled, uploading, errors>>
    /\ executing' = [executing EXCEPT ![j] = "no"]
    /\ resolved' = IF executing[j] = "done" THEN resolved \cup {j} ELSE resolved
    /\ RequestSoonerPoll
    /\ Load(expanded \cap {UnitOf[j]}, {UnitOf[j]}, {}, {})

-----------------------------------------------------------------------------
ServerStep == \/ \E j \in Jobs : Proceed(j)
              \/ \E u \in Units : Begin(u) \/ FailToStart(u)
              \/ Restart

PollStep == \/ Tick \/ SoonerFires \/ HideTab \/ ShowTab \/ Unmount
            \/ TransferStarted \/ RefreshRemoved
            \/ \E r \in refreshes : ReadSummaries(r) \/ ApplySummaries(r)
                                    \/ FailSummaries(r)

UnitStep == \/ \E u \in Units : RemoveUnit(u) \/ Toggle(u)
            \/ \E r \in loads : ReadGroups(r) \/ ApplyGroups(r) \/ FailGroups(r)

ChoiceStep == \E j \in Jobs : \/ Choose(j) \/ ChooseUpload(j) \/ EndUpload(j)
                              \/ Approve(j) \/ LoseChoice(j) \/ EndChoice(j)

Next == ServerStep \/ PollStep \/ UnitStep \/ ChoiceStep

\* Timers fire and requests end; nobody has to open, decide or proceed.
Fairness ==
    /\ WF_vars(Tick) /\ WF_vars(SoonerFires)
    /\ WF_vars(\E r \in refreshes : ReadSummaries(r))
    /\ WF_vars(\E r \in refreshes : ApplySummaries(r))
    /\ \A u \in Units :
          /\ WF_vars(\E r \in loads : r.unit = u /\ ReadGroups(r))
          /\ WF_vars(\E r \in loads : r.unit = u /\ ApplyGroups(r))
    /\ \A j \in Jobs : WF_vars(Approve(j)) /\ WF_vars(EndChoice(j))

Spec == Init /\ [][Next]_vars /\ Fairness

-----------------------------------------------------------------------------
TypeOK ==
    /\ unitType \in Types
    /\ status \in [Jobs -> Status]
    /\ progress \in [Units -> {"queued", "failed", "begun"}]
    /\ hidden \in SUBSET Units
    /\ mounted \in BOOLEAN /\ visible \in BOOLEAN
    /\ interval \in BOOLEAN /\ sooner \in BOOLEAN
    /\ isRefreshing \in BOOLEAN
    /\ \A r \in refreshes : r \in [then : {"nothing", "polling", "sooner"},
                                   read : BOOLEAN,
                                   said : [units : SUBSET Units,
                                           seen : [Jobs -> Status],
                                           waits : SUBSET Units]]
    /\ removing \in BOOLEAN
    /\ shown \in SUBSET Units
    /\ seen \in [Jobs -> Status]
    /\ waits \in SUBSET Units
    /\ rows \in [Jobs -> Status]
    /\ expanded \in SUBSET Units
    /\ loading \in SUBSET Units
    /\ \A r \in loads : \E said \in {NoGroups} \cup [JobsOf(r.unit) -> Status] :
          r \in [unit : Units, current : BOOLEAN, read : BOOLEAN, said : {said}]
    /\ pending \in SUBSET Units
    /\ executing \in [Jobs -> {"no", "sent", "done", "refused"}]
    /\ uploading \in SUBSET Jobs /\ resolved \in SUBSET Jobs
    /\ settled \in SUBSET Units
    /\ errors \in 0 .. MaxErrors

\* While the page is open in front, exactly one timer is set, or the refresh
\* the accelerated timer began is under way and will set the interval; no timer
\* is set on a page that is hidden or was left.
PollingGoesOn ==
    /\ mounted /\ visible => \/ interval \/ sooner
                            \/ \E r \in refreshes : r.then = "polling"
    /\ ~(interval /\ sooner)
    /\ interval \/ sooner => mounted /\ visible

\* A unit that was opened, or decided on, since its jobs were last loaded has a
\* request under way whose answer will be applied or which another will follow,
\* unless the end of a choice will ask for it.
OpenedIsLoaded ==
    mounted => \A u \in expanded \ settled :
        \/ Busy(u)
        \/ \E r \in loads : r.unit = u /\ (r.current \/ u \in pending)

\* What is displayed of a job is never older than what was: neither its summary
\* nor its row goes back while its unit stays in the list.
ForwardOnly ==
    [][\A j \in Jobs : UnitOf[j] \in shown /\ UnitOf[j] \in shown' =>
           seen[j] <= seen'[j] /\ rows[j] <= rows'[j]]_vars

\* A page that was left sends nothing more and sets no timer.
QuietWhenLeft ==
    [][~mounted => /\ ~interval' /\ ~sooner'
                   /\ isRefreshing' => isRefreshing
                   /\ loading' \subseteq loading
                   /\ \A j \in Jobs : executing[j] = "no" => executing'[j] = "no"
      ]_vars

\* A decision MCPServer offers in the unit the user has opened becomes one the
\* page offers, whatever requests failed or were overtaken.
DecisionReachesUser ==
    \A j \in Jobs :
        (mounted /\ visible /\ status[j] = Offered /\ UnitOf[j] \in expanded)
            ~> \/ Current(j)
               \/ ~(mounted /\ visible /\ status[j] = Offered)
               \/ UnitOf[j] \notin expanded
=============================================================================
