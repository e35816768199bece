------------------------- MODULE ProcessMonitorProofs --------------------------
(***************************************************************************)
(* What ProcessMonitor promises to the user of the page, for any units and *)
(* jobs.                                                                   *)
(*                                                                         *)
(* MonitorInv is inductive: InitMonitor, and StepMonitor from one lemma    *)
(* per part of it.  Most steps are frames of it (StayFrame, RefreshFrame,  *)
(* UnitFrame, ChoiceFrame); refresh and loadUnitJobGroups are run by many  *)
(* actions, so what they do to the requests under way is stated once, in   *)
(* RefreshFacts and in the lemmas Load..., and LoadSteps tells with what   *)
(* arguments loadUnitJobGroups is run.                                     *)
(***************************************************************************)
EXTENDS ProcessMonitorInv, TLAPS

\* The types of the requests for the summaries, and for the jobs of a unit.
RefreshTypes == [then : {"nothing", "polling", "sooner"}, read : BOOLEAN,
                 said : [units : SUBSET Units, seen : [Jobs -> Status],
                         waits : SUBSET Units]]
GroupsOf(u) == {NoGroups} \cup [JobsOf(u) -> Status]
LoadTyped(r) == /\ r = [unit |-> r.unit, current |-> r.current,
                        read |-> r.read, said |-> r.said]
                /\ r.unit \in Units /\ r.current \in BOOLEAN /\ r.read \in BOOLEAN
                /\ r.said \in GroupsOf(r.unit)

(* The types of the requests, one by one. *)
LEMMA RequestTypes ==
    ASSUME TypeOK
    PROVE  /\ \A r \in refreshes : r \in RefreshTypes
           /\ \A r \in loads : LoadTyped(r)
  BY DEF TypeOK, RefreshTypes, LoadTyped, GroupsOf

\* s is the request r as a step leaves it that makes the units us obsolete.
Follows(s, r, us) == s = [r EXCEPT !.current = @ /\ r.unit \notin us]

(* loadUnitJobGroups, as the step that runs it sees it: which requests stay,
   which are new, and that a unit asked for with force gets one. *)
LEMMA LoadFacts ==
    ASSUME NEW us, us \subseteq Units, NEW forced, NEW obsolete,
           NEW ended, ended \subseteq loads,
           TypeOK, OneLoadPerUnit, Load(us, forced, obsolete, ended)
    PROVE  /\ \A s \in loads' :
                 \/ /\ s = GroupsRequest(s.unit) /\ s.unit \in us
                    /\ \A r \in loads \ ended : r.unit # s.unit
                 \/ \E r \in loads \ ended : Follows(s, r, obsolete)
           /\ \A r \in loads \ ended : \E s \in loads' : Follows(s, r, obsolete)
           /\ \A s \in loads' : LoadTyped(s)
           /\ OneLoadPerUnit'
           /\ loading' \subseteq Units
           /\ \A u \in pending' : u \in pending \/ u \in us
           /\ ~mounted => loading' \subseteq loading
  <1> DEFINE done == {r.unit : r \in ended}
             may == {u \in us : mounted /\ ~Busy(u)'}
             idle == may \ (loading \ done)
  <1>1. /\ loading' = (loading \ done) \cup idle
        /\ loads' = Invalidate(obsolete, loads \ ended)
                    \cup {GroupsRequest(u) : u \in idle}
        /\ pending' = ((pending \ (obsolete \cup done))
                         \cup (may \cap forced)) \ idle
    BY DEF Load
  <1>2. \A r \in loads : LoadTyped(r)
    BY RequestTypes
  <1>3. /\ loading = {r.unit : r \in loads}
        /\ \A r, s \in loads : r.unit = s.unit => r = s
    BY DEF OneLoadPerUnit
  <1>4. \A r \in loads \ ended : r.unit \in loading \ done
    BY <1>3
  <1>5. \A u \in loading \ done : \E r \in loads \ ended : r.unit = u
    BY <1>3
  <1>6. \A u : GroupsRequest(u).unit = u /\ GroupsRequest(u).current = TRUE
               /\ GroupsRequest(u).read = FALSE /\ GroupsRequest(u).said = NoGroups
    BY DEF GroupsRequest
  <1>7. \A r \in loads \ ended : \A s : Follows(s, r, obsolete) =>
            s.unit = r.unit /\ s.said = r.said /\ s.read = r.read
            /\ s.current = (r.current /\ r.unit \notin obsolete) /\ LoadTyped(s)
    BY <1>2 DEF Follows, LoadTyped
  <1>8. \A s \in loads' : \/ \E u \in idle : s = GroupsRequest(u)
                          \/ \E r \in loads \ ended : Follows(s, r, obsolete)
    BY <1>1 DEF Invalidate, Follows
  <1>9. /\ \A u \in idle : GroupsRequest(u) \in loads'
        /\ \A r \in loads \ ended : \E s \in loads' : Follows(s, r, obsolete)
    BY <1>1 DEF Invalidate, Follows
  <1>10. \A u \in us : LoadTyped(GroupsRequest(u))
    BY DEF LoadTyped, GroupsRequest, GroupsOf
  <1>0. idle \subseteq us /\ may \subseteq us /\ idle \cap (loading \ done) = {}
    OBVIOUS
  <1> HIDE DEF done, may, idle
  <1>11. OneLoadPerUnit'
    <2>1. \A r, s \in loads' : r.unit = s.unit => r = s
      <3> SUFFICES ASSUME NEW p \in loads', NEW q \in loads', p.unit = q.unit
                   PROVE  p = q
        OBVIOUS
      <3>1. CASE \E u \in idle : p = GroupsRequest(u)
        <4>1. p.unit \notin loading \ done /\ p = GroupsRequest(p.unit)
          BY <3>1, <1>0, <1>6
        <4> QED BY <4>1, <1>4, <1>6, <1>7, <1>8
      <3>2. CASE \E u \in idle : q = GroupsRequest(u)
        <4>1. q.unit \notin loading \ done /\ q = GroupsRequest(q.unit)
          BY <3>2, <1>0, <1>6
        <4> QED BY <4>1, <1>4, <1>6, <1>7, <1>8
      <3>3. CASE \E r, t \in loads \ ended : Follows(p, r, obsolete)
                                            /\ Follows(q, t, obsolete)
        <4>1. PICK r \in loads \ ended, t \in loads \ ended :
                 Follows(p, r, obsolete) /\ Follows(q, t, obsolete)
          BY <3>3
        <4>2. r = t
          BY <4>1, <1>3, <1>7
        <4> QED BY <4>1, <4>2 DEF Follows
      <3> QED BY <3>1, <3>2, <3>3, <1>8
    <2>2. \A s \in loads' : s.unit \in loading'
      <3> SUFFICES ASSUME NEW s \in loads' PROVE s.unit \in loading'
        OBVIOUS
      <3>1. CASE \E u \in idle : s = GroupsRequest(u)
        BY <3>1, <1>1, <1>6
      <3>2. CASE \E r \in loads \ ended : Follows(s, r, obsolete)
        BY <3>2, <1>1, <1>4, <1>7
      <3> QED BY <3>1, <3>2, <1>8
    <2>3. \A u \in loading' : \E s \in loads' : s.unit = u
      <3> SUFFICES ASSUME NEW u \in loading' PROVE \E s \in loads' : s.unit = u
        OBVIOUS
      <3>1. CASE u \in idle
        BY <3>1, <1>6, <1>9
      <3>2. CASE u \in loading \ done
        <4>1. PICK r \in loads \ ended : r.unit = u
          BY <3>2, <1>5
        <4>2. PICK s \in loads' : Follows(s, r, obsolete)
          BY <1>9
        <4> QED BY <4>1, <4>2, <1>7
      <3> QED BY <3>1, <3>2, <1>1
    <2> QED BY <2>1, <2>2, <2>3 DEF OneLoadPerUnit
  <1>12. \A s \in loads' :
                 \/ /\ s = GroupsRequest(s.unit) /\ s.unit \in us
                    /\ \A r \in loads \ ended : r.unit # s.unit
                 \/ \E r \in loads \ ended : Follows(s, r, obsolete)
    BY <1>0, <1>4, <1>6, <1>8
  <1>15. \A s \in loads' : LoadTyped(s)
    BY <1>0, <1>6, <1>7, <1>8, <1>10
  <1>16. loading' \subseteq Units /\ (~mounted => loading' \subseteq loading)
    <2>1. loading \subseteq Units
      BY DEF TypeOK
    <2>2. ~mounted => idle = {}
      BY DEF idle, may
    <2> QED BY <2>1, <2>2, <1>0, <1>1
  <1>17. \A u \in pending' : u \in pending \/ u \in us
    BY <1>0, <1>1
  <1> QED BY <1>9, <1>11, <1>12, <1>15, <1>16, <1>17 DEF done

(* ... and the types it leaves. *)
LEMMA LoadTypes ==
    ASSUME NEW us, us \subseteq Units, NEW forced, NEW obsolete,
           NEW ended, ended \subseteq loads,
           TypeOK, OneLoadPerUnit, Load(us, forced, obsolete, ended)
    PROVE  /\ \A s \in loads' : LoadTyped(s)
           /\ loading' \subseteq Units
           /\ \A u \in pending' : u \in pending \/ u \in us
  BY LoadFacts

(* refresh, as the step that runs it sees it. *)
LEMMA RefreshFacts ==
    ASSUME NEW then \in {"nothing", "polling", "sooner"},
           TypeOK, OneRefresh, Refresh(then)
    PROVE  /\ isRefreshing' \in BOOLEAN
           /\ \A r \in refreshes' : r \in RefreshTypes
           /\ \A r \in refreshes' : r \in refreshes \/ (~r.read /\ r.then = then)
           /\ \A r \in refreshes' : \A j \in Jobs :
                 r \in refreshes \/ r.said.seen[j] = None
           /\ refreshes \subseteq refreshes'
           /\ OneRefresh'
           /\ mounted /\ ~isRefreshing => \E r \in refreshes' : r.then = then
           /\ ~mounted => isRefreshing' = isRefreshing
  <1>1. \A r \in refreshes : r \in RefreshTypes
    BY RequestTypes
  <1>2. /\ SummariesRequest(then) \in RefreshTypes
        /\ ~SummariesRequest(then).read /\ SummariesRequest(then).then = then
        /\ \A j \in Jobs : SummariesRequest(then).said.seen[j] = None
    BY DEF SummariesRequest, RefreshTypes, Status, None, Over, Gone
  <1>3. isRefreshing \in BOOLEAN
    BY DEF TypeOK
  <1>4. CASE mounted /\ ~isRefreshing
    <2>1. isRefreshing' = TRUE /\ refreshes' = {SummariesRequest(then)}
      BY <1>4 DEF Refresh, OneRefresh
    <2> QED BY <2>1, <1>2, <1>4 DEF OneRefresh
  <1>5. CASE ~(mounted /\ ~isRefreshing)
    <2>1. UNCHANGED requests
      BY <1>5 DEF Refresh
    <2> QED BY <2>1, <1>1, <1>3, <1>5 DEF OneRefresh, requests
  <1> QED BY <1>4, <1>5

\* What TypeOK says of the rest of the state.
PlainTypes ==
    /\ unitType \in Types
    /\ status \in [Jobs -> Status]
    /\ progress \in [Units -> {"queued", "failed", "begun"}]
    /\ hidden \in SUBSET Units
    /\ mounted \in BOOLEAN /\ visible \in BOOLEAN
    /\ interval \in BOOLEAN /\ sooner \in BOOLEAN
    /\ isRefreshing \in BOOLEAN
    /\ removing \in BOOLEAN
    /\ shown \in SUBSET Units
    /\ seen \in [Jobs -> Status]
    /\ waits \in SUBSET Units
    /\ rows \in [Jobs -> Status]
    /\ expanded \in SUBSET Units
    /\ loading \in SUBSET Units
    /\ pending \in SUBSET Units
    /\ executing \in [Jobs -> {"no", "sent", "done", "refused"}]
    /\ uploading \in SUBSET Jobs /\ resolved \in SUBSET Jobs
    /\ settled \in SUBSET Units
    /\ errors \in 0 .. MaxErrors

(* A load is a record whose answer is about the groups of its unit. *)
LEMMA LoadTypedRecord ==
    \A r : LoadTyped(r) <=> \E said \in GroupsOf(r.unit) :
              r \in [unit : Units, current : BOOLEAN, read : BOOLEAN, said : {said}]
  BY DEF LoadTyped

(* The type invariant, with what a refresh and a load may be apart. *)
LEMMA TypesSplit ==
    /\ TypeOK <=> /\ PlainTypes
                  /\ \A r \in refreshes : r \in RefreshTypes
                  /\ \A r \in loads : LoadTyped(r)
    /\ TypeOK' <=> /\ PlainTypes'
                   /\ \A r \in refreshes' : r \in RefreshTypes
                   /\ \A r \in loads' : LoadTyped(r)
  BY LoadTypedRecord DEF TypeOK, PlainTypes, RefreshTypes, GroupsOf

(* The summary of a later status is no earlier status than that of it. *)
LEMMA SummaryFacts ==
    /\ Status = 0 .. 4
    /\ \A s \in Status : Summary(s) \in Status
    /\ \A s, t \in Status : s <= t => Summary(s) <= Summary(t)
    /\ \A s \in Status : Summary(s) >= None
  BY DEF Status, Summary, None, Marked, Offered, Over, Gone

(* Starting a timer leaves both timers Boolean. *)
LEMMA TimersTyped ==
    ASSUME PlainTypes, UNCHANGED <<mounted, visible>>
    PROVE  /\ (sooner' \in BOOLEAN /\ StartPolling => interval' \in BOOLEAN)
           /\ (RequestSoonerPoll => interval' \in BOOLEAN /\ sooner' \in BOOLEAN)
  BY DEF PlainTypes, StartPolling, RequestSoonerPoll, timers

(* The variables have their types when the page is opened. *)
LEMMA InitTyped == Init => TypeOK
  <1> SUFFICES ASSUME Init PROVE TypeOK
    OBVIOUS
  <1>1. \A r \in refreshes : r \in RefreshTypes
    <2>1. SummariesRequest("nothing") \in RefreshTypes
      BY DEF SummariesRequest, RefreshTypes, Status, None, Over, Gone
    <2>2. \A r \in refreshes : r = SummariesRequest("nothing")
      BY DEF Init
    <2> QED BY <2>1, <2>2
  <1>2. PlainTypes
    <2>1. None \in Status /\ 0 \in 0 .. MaxErrors
      BY MaxErrorsAssumption DEF Status, None, Over, Gone
    <2>2. /\ mounted \in BOOLEAN /\ visible \in BOOLEAN /\ interval \in BOOLEAN
          /\ sooner \in BOOLEAN /\ isRefreshing \in BOOLEAN /\ removing \in BOOLEAN
      BY DEF Init
    <2>3. /\ seen \in [Jobs -> Status] /\ rows \in [Jobs -> Status]
          /\ executing \in [Jobs -> {"no", "sent", "done", "refused"}]
      BY <2>1 DEF Init
    <2>4. progress \in [Units -> {"queued", "failed", "begun"}]
      <3>1. {"queued", "begun"} \cup FailedBefore \subseteq {"queued", "failed", "begun"}
        BY DEF FailedBefore
      <3> QED BY <3>1 DEF Init
    <2> QED BY <2>1, <2>2, <2>3, <2>4 DEF Init, PlainTypes
  <1> QED BY <1>1, <1>2, TypesSplit DEF Init

(* The server and the polling keep the types. *)
LEMMA PollTyped ==
    ASSUME TypeOK, OneRefresh, OneLoadPerUnit, ServerStep \/ PollStep
    PROVE  TypeOK'
  <1> USE TypesSplit
  <1>1. ASSUME NEW j \in Jobs, Proceed(j) PROVE TypeOK'
    BY <1>1 DEF Proceed, PlainTypes, Status, None, Over, Gone, timers, requests, page,
                groups, choices
  <1>2. ASSUME NEW u \in Units, Begin(u) \/ FailToStart(u) PROVE TypeOK'
    BY <1>2 DEF Begin, FailToStart, Becomes, FailedBefore, PlainTypes, timers,
                requests, page, groups, choices
  <1>15. CASE Restart
    BY <1>15 DEF Restart, PlainTypes, Status, None, Over, Gone, timers, requests, page,
                groups, choices
  <1>3. CASE Tick
    <2>1. isRefreshing' \in BOOLEAN /\ \A r \in refreshes' : r \in RefreshTypes
      BY <1>3, RefreshFacts DEF Tick
    <2> QED BY <2>1, <1>3 DEF Tick, PlainTypes, server, timers, page, groups, choices
  <1>4. CASE SoonerFires
    <2>1. isRefreshing' \in BOOLEAN /\ \A r \in refreshes' : r \in RefreshTypes
      BY <1>4, RefreshFacts DEF SoonerFires
    <2>2. interval' \in BOOLEAN /\ sooner' \in BOOLEAN
      BY <1>4, TimersTyped DEF SoonerFires, PlainTypes, page
    <2> QED BY <2>1, <2>2, <1>4 DEF SoonerFires, PlainTypes, server, page, groups, choices
  <1>5. CASE HideTab
    BY <1>5 DEF HideTab, PlainTypes, server, requests, groups, choices
  <1>6. CASE ShowTab
    <2>1. isRefreshing' \in BOOLEAN /\ \A r \in refreshes' : r \in RefreshTypes
      BY <1>6, RefreshFacts DEF ShowTab
    <2>2. interval' \in BOOLEAN
      BY <1>6 DEF ShowTab, StartPolling, PlainTypes
    <2> QED BY <2>1, <2>2, <1>6 DEF ShowTab, PlainTypes, server, groups, choices
  <1>7. CASE Unmount
    BY <1>7 DEF Unmount, PlainTypes, server, requests, groups, choices
  <1>8. CASE TransferStarted
    <2>1. interval' \in BOOLEAN /\ sooner' \in BOOLEAN
      BY <1>8, TimersTyped DEF TransferStarted, page
    <2> QED BY <2>1, <1>8 DEF TransferStarted, PlainTypes, server, requests, page,
                              groups, choices
  <1>9. CASE RefreshRemoved
    <2>1. isRefreshing' \in BOOLEAN /\ \A r \in refreshes' : r \in RefreshTypes
      BY <1>9, RefreshFacts DEF RefreshRemoved
    <2>2. interval' \in BOOLEAN /\ sooner' \in BOOLEAN
      BY <1>9, TimersTyped DEF RefreshRemoved, PlainTypes, timers
    <2> QED BY <2>1, <2>2, <1>9 DEF RefreshRemoved, PlainTypes, server, groups, choices
  <1>10. ASSUME NEW r \in refreshes, ReadSummaries(r) PROVE TypeOK'
    <2>1. Summaries \in [units : SUBSET Units, seen : [Jobs -> Status],
                         waits : SUBSET Units]
      BY SummaryFacts DEF Summaries, PlainTypes, Status, None, Over, Gone
    <2>2. [r EXCEPT !.read = TRUE, !.said = Summaries] \in RefreshTypes
      BY <2>1 DEF RefreshTypes
    <2> QED BY <2>2, <1>10 DEF ReadSummaries, PlainTypes, server, timers, page,
                               groups, choices
  <1>11. ASSUME NEW r \in refreshes, EndRefresh(r)
         PROVE  /\ isRefreshing' \in BOOLEAN /\ interval' \in BOOLEAN
                /\ sooner' \in BOOLEAN /\ UNCHANGED <<mounted, visible>>
                /\ \A q \in refreshes' : q \in RefreshTypes
    <2>1. r.then \in {"nothing", "polling", "sooner"}
      BY DEF RefreshTypes
    <2> QED BY <2>1, <1>11, TimersTyped DEF EndRefresh, PlainTypes, timers
  <1>12. ASSUME NEW r \in refreshes, ApplySummaries(r) PROVE TypeOK'
    <2> DEFINE gone == Units \ r.said.units
               closed == gone \cup r.said.waits
    <2>1. r.said \in [units : SUBSET Units, seen : [Jobs -> Status],
                      waits : SUBSET Units]
      BY DEF RefreshTypes
    <2>2. /\ EndRefresh(r)
          /\ shown' = r.said.units /\ seen' = r.said.seen /\ waits' = r.said.waits
          /\ rows' = [j \in Jobs |-> IF UnitOf[j] \in gone THEN None ELSE rows[j]]
          /\ UNCHANGED <<server, removing, settled, executing, uploading, errors>>
      BY <1>12 DEF ApplySummaries
    <2>3. rows' \in [Jobs -> Status]
      BY <2>2 DEF PlainTypes, Status, None, Over, Gone
    <2>4. /\ expanded' \in SUBSET Units /\ resolved' \in SUBSET Jobs
          /\ loading' \in SUBSET Units /\ pending' \in SUBSET Units
          /\ \A q \in loads' : LoadTyped(q)
      <3>1. CASE mounted
        <4>1. /\ expanded' = expanded \ closed
              /\ resolved' = {j \in resolved : UnitOf[j] \notin gone}
              /\ Load(expanded', {}, closed, {})
          BY <1>12, <3>1 DEF ApplySummaries
        <4>2. expanded' \subseteq Units /\ resolved' \subseteq Jobs
          BY <4>1 DEF PlainTypes
        <4>3. /\ loading' \subseteq Units /\ \A q \in loads' : LoadTyped(q)
              /\ \A u \in pending' : u \in pending \/ u \in expanded'
          <5> HIDE DEF closed, gone
          <5>1. {} \subseteq loads
            OBVIOUS
          <5>2. Load(expanded', {}, closed, {})
            BY <4>1
          <5> QED BY <4>2, <5>1, <5>2, LoadTypes
        <4> QED BY <4>2, <4>3 DEF PlainTypes
      <3>2. CASE ~mounted
        BY <1>12, <3>2 DEF ApplySummaries, PlainTypes
      <3> QED BY <3>1, <3>2
    <2>5. PlainTypes'
      BY <2>1, <2>2, <2>3, <2>4, <1>11 DEF PlainTypes, server
    <2> QED BY <2>2, <2>4, <2>5, <1>11
  <1>13. ASSUME NEW r \in refreshes, FailSummaries(r) PROVE TypeOK'
    <2>1. EndRefresh(r)
      BY <1>13 DEF FailSummaries
    <2> QED BY <2>1, <1>11, <1>13, MaxErrorsAssumption
            DEF FailSummaries, PlainTypes, server, groups, choices
  <1> QED BY <1>1, <1>2, <1>3, <1>4, <1>5, <1>6, <1>7, <1>8, <1>9, <1>10, <1>12,
             <1>13, <1>15 DEF ServerStep, PollStep

(* So do the units and the choices. *)
LEMMA EndLoadTyped ==
    ASSUME TypeOK, OneLoadPerUnit, NEW r \in loads, NEW said,
           said \in GroupsOf(r.unit), EndLoad(r, said), errors' \in 0 .. MaxErrors
    PROVE  TypeOK'
  <1>1. LoadTyped(r) /\ PlainTypes
    BY TypesSplit
  <1>2. Load(pending \cap expanded \cap {r.unit}, {}, {}, {r})
    BY DEF EndLoad
  <1>3. pending \cap expanded \cap {r.unit} \subseteq Units /\ {r} \subseteq loads
    BY <1>1 DEF PlainTypes
  <1>4. /\ \A s \in loads' : LoadTyped(s)
        /\ loading' \subseteq Units
        /\ \A u \in pending' : u \in pending
    BY <1>2, <1>3, LoadTypes
  <1>5. rows' \in [Jobs -> Status]
    <2>1. \A j \in DOMAIN said : said[j] \in Status
      BY DEF GroupsOf, NoGroups
    <2> QED BY <2>1, <1>1 DEF EndLoad, PlainTypes
  <1>6. settled' \subseteq Units
    BY <1>1 DEF EndLoad, PlainTypes, LoadTyped
  <1>7. PlainTypes'
    BY <1>1, <1>4, <1>5, <1>6 DEF EndLoad, PlainTypes, server, timers, requests,
                                  page, choices
  <1>8. \A q \in refreshes' : q \in RefreshTypes
    BY TypesSplit DEF EndLoad, requests
  <1> QED BY <1>4, <1>7, <1>8, TypesSplit

(* Types are kept by the steps that remove, expand and load units. *)
LEMMA UnitTyped ==
    ASSUME TypeOK, OneLoadPerUnit, UnitStep
    PROVE  TypeOK'
  <1>0. PlainTypes
    BY TypesSplit
  <1>1. ASSUME NEW u \in Units, RemoveUnit(u) PROVE TypeOK'
    BY <1>0, <1>1, TypesSplit
       DEF RemoveUnit, PlainTypes, timers, requests, groups, choices
  <1>2. ASSUME NEW u \in Units, Toggle(u) PROVE TypeOK'
    <2>1. expanded' \subseteq Units /\ Load(expanded', expanded', expanded, {})
      BY <1>2 DEF Toggle
    <2>2. {} \subseteq loads
      OBVIOUS
    <2>3. /\ \A s \in loads' : LoadTyped(s)
          /\ loading' \subseteq Units
          /\ \A q \in pending' : q \in pending \/ q \in expanded'
      BY <2>1, <2>2, LoadTypes
    <2>4. PlainTypes'
      BY <1>0, <1>2, <2>1, <2>3 DEF Toggle, PlainTypes, server, timers, requests, choices
    <2>5. \A q \in refreshes' : q \in RefreshTypes
      BY <1>2, TypesSplit DEF Toggle, requests
    <2> QED BY <2>3, <2>4, <2>5, TypesSplit
  <1>3. ASSUME NEW r \in loads, ReadGroups(r) PROVE TypeOK'
    <2> DEFINE told == IF r.unit \in hidden THEN NoGroups
                       ELSE [j \in JobsOf(r.unit) |-> status[j]]
               q == [r EXCEPT !.read = TRUE, !.said = told]
    <2>1. LoadTyped(r)
      BY TypesSplit
    <2>2. [j \in JobsOf(r.unit) |-> status[j]] \in [JobsOf(r.unit) -> Status]
      BY <1>0 DEF JobsOf, PlainTypes
    <2>3. told \in GroupsOf(r.unit)
      BY <2>2 DEF GroupsOf
    <2> HIDE DEF told
    <2>6. PICK was : r \in [unit : Units, current : BOOLEAN, read : BOOLEAN, said : {was}]
      BY <2>1, LoadTypedRecord
    <2>9. q.unit = r.unit /\ q \in [unit : Units, current : BOOLEAN, read : BOOLEAN,
                                   said : {told}]
      BY <2>6
    <2>4. LoadTyped(q)
      BY <2>3, <2>9, LoadTypedRecord
    <2>5. \A s \in loads' : LoadTyped(s)
      BY <1>3, <2>4, TypesSplit DEF ReadGroups, told
    <2>8. PlainTypes'
      BY <1>0, <1>3 DEF ReadGroups, PlainTypes, server, timers, requests, page, choices
    <2>7. \A s \in refreshes' : s \in RefreshTypes
      BY <1>3, TypesSplit DEF ReadGroups, requests
    <2> QED BY <2>5, <2>7, <2>8, TypesSplit
  <1>4. ASSUME NEW r \in loads, ApplyGroups(r) PROVE TypeOK'
    <2>1. LoadTyped(r)
      BY TypesSplit
    <2>2. r.said \in GroupsOf(r.unit) /\ errors' \in 0 .. MaxErrors
      BY <1>0, <1>4, <2>1 DEF ApplyGroups, PlainTypes, LoadTyped
    <2> QED BY <1>4, <2>2, EndLoadTyped DEF ApplyGroups
  <1>5. ASSUME NEW r \in loads, FailGroups(r) PROVE TypeOK'
    <2>1. NoGroups \in GroupsOf(r.unit)
      BY DEF GroupsOf
    <2>2. errors' \in 0 .. MaxErrors
      BY <1>0, <1>5, MaxErrorsAssumption DEF FailGroups, PlainTypes
    <2> QED BY <1>5, <2>1, <2>2, EndLoadTyped DEF FailGroups
  <1> QED BY <1>1, <1>2, <1>3, <1>4, <1>5 DEF UnitStep

(* Types are kept by a decision that is sent, and by the loads after it. *)
LEMMA ExecuteTyped ==
    ASSUME TypeOK, OneLoadPerUnit, NEW j \in Jobs, Execute(j)
    PROVE  /\ executing' \in [Jobs -> {"no", "sent", "done", "refused"}]
           /\ \A s \in loads' : LoadTyped(s)
           /\ loading' \subseteq Units /\ pending' \subseteq Units
           /\ settled' \subseteq Units
           /\ UNCHANGED <<rows, resolved>>
  <1>0. PlainTypes
    BY TypesSplit
  <1>1. Load({}, {}, {UnitOf[j]}, {}) /\ {} \subseteq Units /\ {} \subseteq loads
    BY DEF Execute
  <1>2. /\ \A s \in loads' : LoadTyped(s)
        /\ loading' \subseteq Units
        /\ \A q \in pending' : q \in pending
    BY <1>1, LoadTypes
  <1> QED BY <1>0, <1>2 DEF Execute, PlainTypes

(* Types are kept by the steps of the choices that a job offers. *)
LEMMA ChoiceTyped ==
    ASSUME TypeOK, OneLoadPerUnit, NEW j \in Jobs,
           \/ Choose(j) \/ ChooseUpload(j) \/ EndUpload(j)
           \/ Approve(j) \/ LoseChoice(j) \/ EndChoice(j)
    PROVE  TypeOK'
  <1>0. PlainTypes
    BY TypesSplit
  <1>1. CASE Choose(j)
    <2>1. Execute(j)
      BY <1>1 DEF Choose
    <2> QED BY <1>0, <1>1, <2>1, ExecuteTyped, TypesSplit
            DEF Choose, PlainTypes, server, timers, requests, page
  <1>2. CASE ChooseUpload(j)
    BY <1>0, <1>2, TypesSplit
       DEF ChooseUpload, PlainTypes, server, timers, requests, page, groups
  <1>3. CASE EndUpload(j)
    <2>1. CASE Execute(j)
      BY <1>0, <1>3, <2>1, ExecuteTyped, TypesSplit
         DEF EndUpload, PlainTypes, server, timers, requests, page
    <2>2. CASE UNCHANGED <<groups, executing, resolved>>
      BY <1>0, <1>3, <2>2, TypesSplit
         DEF EndUpload, PlainTypes, server, timers, requests, page, groups
    <2> QED BY <1>3, <2>1, <2>2 DEF EndUpload
  <1>4. CASE Approve(j)
    BY <1>0, <1>4, TypesSplit
       DEF Approve, PlainTypes, Status, None, Over, Gone, timers, requests,
           page, groups
  <1>5. CASE LoseChoice(j)
    BY <1>0, <1>5, MaxErrorsAssumption, TypesSplit
       DEF LoseChoice, PlainTypes, server, timers, requests, page, groups
  <1>6. CASE EndChoice(j)
    <2>1. /\ Load(expanded \cap {UnitOf[j]}, {UnitOf[j]}, {}, {})
          /\ expanded \cap {UnitOf[j]} \subseteq Units /\ {} \subseteq loads
      BY <1>0, <1>6 DEF EndChoice, PlainTypes
    <2>2. /\ \A s \in loads' : LoadTyped(s)
          /\ loading' \subseteq Units
          /\ \A q \in pending' : q \in pending \/ q \in expanded \cap {UnitOf[j]}
      BY <2>1, LoadTypes
    <2>3. interval' \in BOOLEAN /\ sooner' \in BOOLEAN
      BY <1>0, <1>6, TimersTyped DEF EndChoice, page
    <2>4. PlainTypes'
      BY <1>0, <1>6, <2>2, <2>3 DEF EndChoice, PlainTypes, server, requests, page
    <2> QED BY <1>6, <2>2, <2>4, TypesSplit DEF EndChoice, requests
  <1> QED BY <1>1, <1>2, <1>3, <1>4, <1>5, <1>6

(* Types are kept by every step. *)
LEMMA StepTyped ==
    ASSUME TypeOK, OneRefresh, OneLoadPerUnit, [Next]_vars
    PROVE  TypeOK'
  <1>1. CASE UNCHANGED vars
    BY <1>1 DEF TypeOK, vars, server, timers, requests, page, groups, choices
  <1> QED BY <1>1, PollTyped, UnitTyped, ChoiceTyped DEF Next, ChoiceStep

-----------------------------------------------------------------------------
(* At most one request for the summaries, one for the jobs of a unit. *)

\* What a choice leaves alone.
LEMMA ChoiceFrame ==
    ASSUME NEW j \in Jobs,
           \/ Choose(j) \/ ChooseUpload(j) \/ EndUpload(j)
           \/ Approve(j) \/ LoseChoice(j) \/ EndChoice(j)
    PROVE  /\ UNCHANGED <<requests, page, rows>>
           /\ \/ UNCHANGED <<loading, loads, pending, settled>>
              \/ Execute(j)
              \/ EndChoice(j)
  BY DEF Choose, ChooseUpload, EndUpload, Execute, Approve, LoseChoice, EndChoice,
         requests, page, groups

\* What a step of the units leaves alone.
LEMMA UnitFrame ==
    ASSUME UnitStep
    PROVE  UNCHANGED <<timers, requests, mounted, visible, shown, seen, choices>>
  BY DEF UnitStep, RemoveUnit, Toggle, ReadGroups, ApplyGroups, FailGroups, EndLoad, page

\* The steps of the server and of the polling that no request follows.
LEMMA StayFrame ==
    ASSUME \/ ServerStep \/ HideTab \/ Unmount \/ TransferStarted
    PROVE  UNCHANGED <<requests, removing, shown, seen, waits, expanded, groups,
                     choices>>
  BY DEF ServerStep, Proceed, Begin, FailToStart, Becomes, Restart, HideTab, Unmount,
         TransferStarted, page

\* Those that refresh.
Refreshes == Tick \/ SoonerFires \/ ShowTab \/ RefreshRemoved

(* The timers and the tab change nothing but the refreshes. *)
LEMMA RefreshFrame ==
    ASSUME Refreshes
    PROVE  /\ \E then \in {"nothing", "polling", "sooner"} : Refresh(then)
           /\ UNCHANGED <<server, mounted, shown, seen, waits, expanded, groups,
                     choices>>
  BY DEF Refreshes, Tick, SoonerFires, ShowTab, RefreshRemoved, page

(* No step begins a refresh while another one is under way. *)
LEMMA StepOneRefresh ==
    ASSUME TypeOK, OneRefresh, [Next]_vars
    PROVE  OneRefresh'
  <1>1. CASE UNCHANGED requests
    BY <1>1 DEF OneRefresh, requests
  <1>2. CASE Refreshes
    BY <1>2, RefreshFrame, RefreshFacts
  <1>3. ASSUME NEW r \in refreshes, EndRefresh(r) PROVE OneRefresh'
    BY <1>3 DEF OneRefresh, EndRefresh
  <1>4. ASSUME NEW r \in refreshes, ReadSummaries(r) PROVE OneRefresh'
    BY <1>4 DEF OneRefresh, ReadSummaries
  <1>5. ASSUME NEW r \in refreshes, ApplySummaries(r) \/ FailSummaries(r)
        PROVE  OneRefresh'
    BY <1>3, <1>5 DEF ApplySummaries, FailSummaries
  <1>6. CASE ServerStep \/ PollStep
    BY <1>1, <1>2, <1>4, <1>5, <1>6, StayFrame DEF PollStep, Refreshes
  <1>7. CASE UnitStep \/ ChoiceStep
    BY <1>1, <1>7, UnitFrame, ChoiceFrame DEF ChoiceStep
  <1>8. CASE UNCHANGED vars
    BY <1>1, <1>8 DEF vars
  <1> QED BY <1>6, <1>7, <1>8 DEF Next

(* The consequences of LoadFacts, one at a time. *)
LEMMA LoadUnique ==
    ASSUME NEW us, us \subseteq Units, NEW forced, NEW obsolete,
           NEW ended, ended \subseteq loads,
           TypeOK, OneLoadPerUnit, Load(us, forced, obsolete, ended)
    PROVE  OneLoadPerUnit' /\ (~mounted => loading' \subseteq loading)
  BY LoadFacts

(* Loading units leaves the loads under way, current if they were. *)
LEMMA LoadKeeps ==
    ASSUME NEW us, us \subseteq Units, NEW forced, NEW obsolete,
           NEW ended, ended \subseteq loads,
           TypeOK, OneLoadPerUnit, Load(us, forced, obsolete, ended),
           NEW r \in loads \ ended
    PROVE  \E s \in loads' : s.unit = r.unit
                             /\ (r.current /\ r.unit \notin obsolete => s.current)
  <1>0. \A q \in loads \ ended : \E s \in loads' : Follows(s, q, obsolete)
    BY LoadFacts
  <1>1. PICK s \in loads' : Follows(s, r, obsolete)
    BY <1>0
  <1>2. LoadTyped(r)
    BY TypesSplit
  <1> QED BY <1>1, <1>2 DEF Follows, LoadTyped

(* A unit whose load is forced is loaded with current data, or is pending. *)
LEMMA LoadStarts ==
    ASSUME NEW us, us \subseteq Units, NEW forced, NEW obsolete,
           NEW ended, ended \subseteq loads,
           TypeOK, OneLoadPerUnit, Load(us, forced, obsolete, ended),
           NEW u \in us \cap forced, mounted, ~Busy(u)'
    PROVE  \E s \in loads' : s.unit = u /\ (s.current \/ u \in pending')
  <1> DEFINE done == {r.unit : r \in ended}
             may == {w \in us : mounted /\ ~Busy(w)'}
             idle == may \ (loading \ done)
  <1>1. u \in may
    OBVIOUS
  <1>2. CASE u \in idle
    <2>1. GroupsRequest(u) \in loads'
      BY <1>2 DEF Load
    <2> QED BY <2>1 DEF GroupsRequest
  <1>3. CASE u \in loading \ done
    <2>1. PICK r \in loads : r.unit = u
      BY <1>3 DEF OneLoadPerUnit
    <2>2. r \in loads \ ended
      BY <2>1, <1>3
    <2>3. u \in pending'
      BY <1>1, <1>3 DEF Load
    <2> QED BY <2>1, <2>2, <2>3, LoadKeeps
  <1> QED BY <1>1, <1>2, <1>3

\* A request that ends is replaced at once if its unit is asked for.
LEMMA LoadReplaces ==
    ASSUME NEW us, us \subseteq Units, NEW forced, NEW obsolete,
           NEW ended, ended \subseteq loads,
           Load(us, forced, obsolete, ended),
           NEW u \in us, mounted, ~Busy(u)', \E r \in ended : r.unit = u
    PROVE  \E s \in loads' : s.unit = u /\ s.current
  <1>1. GroupsRequest(u) \in loads'
    BY DEF Load
  <1> QED BY <1>1 DEF GroupsRequest

(* A pending unit stays pending or is loaded with current data. *)
LEMMA LoadPending ==
    ASSUME NEW us, us \subseteq Units, NEW forced, NEW obsolete,
           NEW ended, ended \subseteq loads,
           TypeOK, OneLoadPerUnit, Load(us, forced, obsolete, ended),
           NEW u \in pending \ obsolete, \A r \in ended : r.unit # u
    PROVE  u \in pending' \/ \E s \in loads' : s.unit = u /\ s.current
  <1> DEFINE done == {r.unit : r \in ended}
             idle == {w \in us : mounted /\ ~Busy(w)'} \ (loading \ done)
  <1>1. CASE u \in idle
    <2>1. GroupsRequest(u) \in loads'
      BY <1>1 DEF Load
    <2> QED BY <2>1 DEF GroupsRequest
  <1>2. CASE u \notin idle
    <2>1. u \notin done
      OBVIOUS
    <2> HIDE DEF done
    <2>2. u \in pending'
      BY <1>2, <2>1 DEF Load, done
    <2> QED BY <2>2
  <1> QED BY <1>1, <1>2

\* What a request under way after the step has read, it had read before.
LEMMA LoadReads ==
    ASSUME NEW us, us \subseteq Units, NEW forced, NEW obsolete,
           NEW ended, ended \subseteq loads,
           TypeOK, OneLoadPerUnit, Load(us, forced, obsolete, ended),
           NEW s \in loads'
    PROVE  s.said = NoGroups
           \/ \E r \in loads \ ended : s.unit = r.unit /\ s.said = r.said
  <1>1. CASE s = GroupsRequest(s.unit)
    BY <1>1 DEF GroupsRequest
  <1>2. CASE \E r \in loads \ ended : Follows(s, r, obsolete)
    <2>1. PICK r \in loads \ ended : Follows(s, r, obsolete)
      BY <1>2
    <2>2. LoadTyped(r)
      BY TypesSplit
    <2> QED BY <2>1, <2>2 DEF Follows, LoadTyped
  <1> QED BY <1>1, <1>2, LoadFacts

\* The steps that run loadUnitJobGroups, and what they run it with.
LEMMA LoadSteps ==
    ASSUME TypeOK, [Next]_vars
    PROVE  \/ UNCHANGED <<loading, loads>>
           \/ \E r \in loads : ReadGroups(r)
           \/ \E us, forced, obsolete, ended :
                 us \subseteq Units /\ ended \subseteq loads
                 /\ Load(us, forced, obsolete, ended)
  <1>0. PlainTypes
    BY TypesSplit
  <1>1. CASE UNCHANGED vars
    BY <1>1 DEF vars, groups
  <1>2. CASE ServerStep \/ PollStep
    <2>1. CASE UNCHANGED groups
      BY <2>1 DEF groups
    <2>2. ASSUME NEW r \in refreshes, ReadSummaries(r) \/ FailSummaries(r)
          PROVE  UNCHANGED groups
      BY <2>2 DEF ReadSummaries, FailSummaries
    <2>3. ASSUME NEW r \in refreshes, ApplySummaries(r), mounted
          PROVE  /\ Load(expanded', {}, (Units \ r.said.units) \cup r.said.waits, {})
                 /\ expanded' \subseteq Units
      BY <1>0, <2>3 DEF ApplySummaries, PlainTypes
    <2>4. ASSUME NEW r \in refreshes, ApplySummaries(r), ~mounted
          PROVE  UNCHANGED <<loading, loads>>
      BY <2>4 DEF ApplySummaries
    <2>5. {} \subseteq loads
      OBVIOUS
    <2> QED BY <1>2, <2>1, <2>2, <2>3, <2>4, <2>5, StayFrame, RefreshFrame
            DEF PollStep, Refreshes
  <1>3. CASE UnitStep
    <2>1. ASSUME NEW u \in Units, RemoveUnit(u) PROVE UNCHANGED <<loading, loads>>
      BY <2>1 DEF RemoveUnit, groups
    <2>2. ASSUME NEW u \in Units, Toggle(u)
          PROVE  Load(expanded', expanded', expanded, {}) /\ expanded' \subseteq Units
      BY <2>2 DEF Toggle
    <2>3. ASSUME NEW r \in loads, NEW said, EndLoad(r, said)
          PROVE  /\ Load(pending \cap expanded \cap {r.unit}, {}, {}, {r})
                 /\ pending \cap expanded \cap {r.unit} \subseteq Units
      BY <1>0, <2>3 DEF EndLoad, PlainTypes
    <2> QED BY <1>3, <2>1, <2>2, <2>3 DEF UnitStep, ApplyGroups, FailGroups
  <1>4. CASE ChoiceStep
    <2>1. ASSUME NEW j \in Jobs, EndChoice(j)
          PROVE  /\ Load(expanded \cap {UnitOf[j]}, {UnitOf[j]}, {}, {})
                 /\ expanded \cap {UnitOf[j]} \subseteq Units
      BY <1>0, <2>1 DEF EndChoice, PlainTypes
    <2>2. ASSUME NEW j \in Jobs, Execute(j) PROVE Load({}, {}, {UnitOf[j]}, {})
      BY <2>2 DEF Execute
    <2> QED BY <1>4, <2>1, <2>2, ChoiceFrame DEF ChoiceStep
  <1> QED BY <1>1, <1>2, <1>3, <1>4 DEF Next

(* No step begins a second load of a unit, or any load after unmounting. *)
LEMMA StepOneLoad ==
    ASSUME TypeOK, OneLoadPerUnit, [Next]_vars
    PROVE  OneLoadPerUnit' /\ (~mounted => loading' \subseteq loading)
  <1>1. CASE UNCHANGED <<loading, loads>>
    BY <1>1 DEF OneLoadPerUnit
  <1>2. ASSUME NEW r \in loads, ReadGroups(r)
        PROVE  OneLoadPerUnit' /\ loading' = loading
    <2>1. loading' = loading
      BY <1>2 DEF ReadGroups
    <2>2. PICK q : /\ loads' = (loads \ {r}) \cup {q}
                   /\ \E said : q = [r EXCEPT !.read = TRUE, !.said = said]
      BY <1>2 DEF ReadGroups
    <2>3. q.unit = r.unit
      BY <2>2, TypesSplit DEF LoadTyped
    <2> QED BY <2>1, <2>2, <2>3 DEF OneLoadPerUnit
  <1>3. ASSUME NEW us, NEW forced, NEW obsolete, NEW ended,
               us \subseteq Units, ended \subseteq loads,
               Load(us, forced, obsolete, ended)
        PROVE  OneLoadPerUnit' /\ (~mounted => loading' \subseteq loading)
    BY <1>3, LoadUnique
  <1> QED BY <1>1, <1>2, <1>3, LoadSteps

-----------------------------------------------------------------------------
(* The timers. *)

LEMMA PollingFollows ==
    ASSUME TypeOK, OneRefresh, PollingGoesOn, [Next]_vars
    PROVE  PollingGoesOn'
  <1>0. /\ mounted \in BOOLEAN /\ visible \in BOOLEAN /\ interval \in BOOLEAN
        /\ sooner \in BOOLEAN /\ isRefreshing \in BOOLEAN
    BY DEF TypeOK
  <1>1. CASE UNCHANGED <<timers, requests, mounted, visible>>
    BY <1>1 DEF PollingGoesOn, timers, requests
  <1>2. ASSUME RequestSoonerPoll, UNCHANGED <<mounted, visible>>,
               \A r \in refreshes : r \in refreshes' \/ r.then # "polling"
        PROVE  PollingGoesOn'
    BY <1>0, <1>2 DEF PollingGoesOn, RequestSoonerPoll, timers
  <1>3. CASE Tick
    <2>1. refreshes \subseteq refreshes'
      BY <1>3, RefreshFacts DEF Tick
    <2> QED BY <1>3, <2>1 DEF Tick, PollingGoesOn, timers, page
  <1>4. CASE SoonerFires
    <2>1. mounted /\ visible /\ ~interval
      BY <1>4 DEF SoonerFires, PollingGoesOn
    <2>2. CASE isRefreshing
      BY <1>0, <1>4, <2>1, <2>2 DEF SoonerFires, StartPolling, PollingGoesOn, page
    <2>3. CASE ~isRefreshing
      <3>1. \E r \in refreshes' : r.then = "polling"
        BY <1>4, <2>1, <2>3, RefreshFacts DEF SoonerFires
      <3> QED BY <1>4, <2>1, <2>3, <3>1 DEF SoonerFires, PollingGoesOn, page
    <2> QED BY <2>2, <2>3
  <1>5. CASE HideTab \/ Unmount
    BY <1>5 DEF HideTab, Unmount, PollingGoesOn
  <1>6. CASE ShowTab
    BY <1>0, <1>6 DEF ShowTab, StartPolling, PollingGoesOn
  <1>7. CASE TransferStarted
    BY <1>2, <1>7 DEF TransferStarted, requests, page
  <1>8. CASE RefreshRemoved
    <2>1. refreshes \subseteq refreshes'
      BY <1>8, RefreshFacts DEF RefreshRemoved
    <2>2. CASE RequestSoonerPoll
      BY <1>2, <1>8, <2>1, <2>2 DEF RefreshRemoved
    <2>3. CASE UNCHANGED timers
      BY <1>8, <2>1, <2>3 DEF RefreshRemoved, PollingGoesOn, timers
    <2> QED BY <1>8, <2>2, <2>3 DEF RefreshRemoved
  <1>9. ASSUME NEW r \in refreshes, ReadSummaries(r) PROVE PollingGoesOn'
    <2>1. PICK q : /\ refreshes' = (refreshes \ {r}) \cup {q}
                   /\ q = [r EXCEPT !.read = TRUE, !.said = Summaries]
      BY <1>9 DEF ReadSummaries
    <2>2. q.then = r.then
      BY <2>1, TypesSplit DEF RefreshTypes
    <2> QED BY <1>9, <2>1, <2>2 DEF ReadSummaries, PollingGoesOn, timers, page
  <1>10. ASSUME NEW r \in refreshes, EndRefresh(r) PROVE PollingGoesOn'
    <2>1. r.then \in {"nothing", "polling", "sooner"}
      BY TypesSplit DEF RefreshTypes
    <2>2. refreshes = {r} /\ UNCHANGED <<mounted, visible>>
      BY <1>10 DEF OneRefresh, EndRefresh
    <2>3. CASE r.then = "polling"
      <3>1. UNCHANGED sooner /\ StartPolling
        BY <1>10, <2>3 DEF EndRefresh
      <3> QED BY <1>0, <2>2, <3>1 DEF StartPolling, PollingGoesOn
    <2>4. CASE r.then = "sooner"
      BY <1>2, <1>10, <2>2, <2>4 DEF EndRefresh
    <2>5. CASE r.then = "nothing"
      <3>1. UNCHANGED timers
        BY <1>10, <2>5 DEF EndRefresh
      <3> QED BY <2>2, <2>5, <3>1 DEF PollingGoesOn, timers
    <2> QED BY <2>1, <2>3, <2>4, <2>5
  <1>11. CASE ServerStep
    BY <1>1, <1>11, StayFrame DEF ServerStep, Proceed, Begin, FailToStart,
                                      Becomes, Restart, page
  <1>12. CASE PollStep
    BY <1>3, <1>4, <1>5, <1>6, <1>7, <1>8, <1>9, <1>10, <1>12
       DEF PollStep, ApplySummaries, FailSummaries
  <1>13. CASE UnitStep
    BY <1>1, <1>13, UnitFrame
  <1>14. ASSUME NEW j \in Jobs,
                \/ Choose(j) \/ ChooseUpload(j) \/ EndUpload(j)
                \/ Approve(j) \/ LoseChoice(j) \/ EndChoice(j)
         PROVE  PollingGoesOn'
    <2>1. UNCHANGED <<requests, mounted, visible>>
      BY <1>14, ChoiceFrame DEF page
    <2>2. CASE EndChoice(j)
      BY <1>2, <2>1, <2>2 DEF EndChoice, requests
    <2>3. CASE ~EndChoice(j)
      BY <1>1, <1>14, <2>1, <2>3
         DEF Choose, ChooseUpload, EndUpload, Approve, LoseChoice, timers
    <2> QED BY <2>2, <2>3
  <1>15. CASE UNCHANGED vars
    BY <1>1, <1>15 DEF vars, page
  <1> QED BY <1>11, <1>12, <1>13, <1>14, <1>15 DEF Next, ChoiceStep

-----------------------------------------------------------------------------
(* The unit that is open. *)

LEMMA OpenedFollows ==
    ASSUME TypeOK, OneLoadPerUnit, OpenedIsLoaded, [Next]_vars
    PROVE  OpenedIsLoaded'
  <1>0. PlainTypes
    BY TypesSplit
  <1>1. CASE UNCHANGED <<expanded, executing, loads, pending, settled>>
              /\ (mounted' => mounted)
    BY <1>1 DEF OpenedIsLoaded, Busy
  \* A request of a unit that is neither obsolete nor over stays what it was.
  <1>2. ASSUME NEW us, us \subseteq Units, NEW forced, NEW obsolete,
               NEW ended, ended \subseteq loads,
               Load(us, forced, obsolete, ended), NEW u, u \notin obsolete,
               \A r \in ended : r.unit # u,
               \E r \in loads : r.unit = u /\ (r.current \/ u \in pending)
        PROVE  \E s \in loads' : s.unit = u /\ (s.current \/ u \in pending')
    <2>1. PICK r \in loads : r.unit = u /\ (r.current \/ u \in pending)
      BY <1>2
    <2>2. r \in loads \ ended
      BY <1>2, <2>1
    <2>3. PICK s \in loads' : s.unit = u /\ (r.current => s.current)
      BY <1>2, <2>1, <2>2, LoadKeeps
    <2>4. CASE u \in pending
      <3>1. u \in pending' \/ \E q \in loads' : q.unit = u /\ q.current
        BY <1>2, <2>4, LoadPending
      <3> QED BY <2>3, <3>1
    <2> QED BY <2>1, <2>3, <2>4
  <1>3. ASSUME NEW r \in refreshes, ApplySummaries(r) PROVE OpenedIsLoaded'
    <2> DEFINE closed == (Units \ r.said.units) \cup r.said.waits
    <2>1. UNCHANGED <<mounted, settled, executing>>
      BY <1>3 DEF ApplySummaries, EndRefresh
    <2>2. CASE mounted
      <3>1. expanded' = expanded \ closed /\ Load(expanded', {}, closed, {})
        BY <1>3, <2>2 DEF ApplySummaries
      <3>2. expanded' \subseteq Units /\ {} \subseteq loads
        BY <3>1, <1>0 DEF PlainTypes
      <3> HIDE DEF closed
      <3>3. ASSUME NEW u \in expanded' \ settled'
            PROVE  \/ Busy(u)'
                   \/ \E s \in loads' : s.unit = u /\ (s.current \/ u \in pending')
        <4>1. u \in expanded \ settled /\ u \notin closed
          BY <2>1, <3>1, <3>3
        <4>2. CASE Busy(u)
          BY <2>1, <4>2 DEF Busy
        <4>3. CASE ~Busy(u)
          <5>1. \E q \in loads : q.unit = u /\ (q.current \/ u \in pending)
            BY <2>2, <4>1, <4>3 DEF OpenedIsLoaded
          <5>2. \A q \in {} : q.unit # u
            OBVIOUS
          <5>3. Load(expanded', {}, closed, {})
            BY <3>1
          <5> QED BY <1>2, <3>2, <4>1, <5>1, <5>2, <5>3
        <4> QED BY <4>2, <4>3
      <3> QED BY <3>3 DEF OpenedIsLoaded
    <2>3. CASE ~mounted
      BY <2>1, <2>3 DEF OpenedIsLoaded
    <2> QED BY <2>2, <2>3
  <1>4. CASE ServerStep \/ PollStep
    <2>1. ASSUME UNCHANGED <<expanded, groups, choices>>, mounted' => mounted
          PROVE  OpenedIsLoaded'
      BY <1>1, <2>1 DEF groups, choices
    <2>2. ASSUME NEW r \in refreshes, ReadSummaries(r) \/ FailSummaries(r)
          PROVE  UNCHANGED <<expanded, groups, choices, mounted>>
      BY <2>2 DEF ReadSummaries, FailSummaries, EndRefresh, page
    <2>3. ASSUME ServerStep \/ HideTab \/ Unmount \/ TransferStarted
          PROVE  mounted' => mounted
      BY <2>3 DEF ServerStep, Proceed, Begin, FailToStart, Becomes, Restart, HideTab,
                  Unmount, TransferStarted, page
    <2> QED BY <1>3, <1>4, <2>1, <2>2, <2>3, StayFrame, RefreshFrame
            DEF PollStep, Refreshes
  <1>5. ASSUME NEW u \in Units, RemoveUnit(u) PROVE OpenedIsLoaded'
    BY <1>1, <1>5 DEF RemoveUnit, groups, choices
  <1>6. ASSUME NEW w \in Units, Toggle(w) PROVE OpenedIsLoaded'
    <2>1. /\ Load(expanded', expanded', expanded, {}) /\ expanded' \subseteq {w}
          /\ expanded' \subseteq Units /\ mounted
      BY <1>6 DEF Toggle
    <2>2. {} \subseteq loads
      OBVIOUS
    <2>3. ASSUME NEW u \in expanded' \ settled', ~Busy(u)'
          PROVE  \E s \in loads' : s.unit = u /\ (s.current \/ u \in pending')
      <3>1. u \in expanded' \cap expanded'
        BY <2>3
      <3> QED BY <2>1, <2>2, <2>3, <3>1, LoadStarts
    <2> QED BY <2>3 DEF OpenedIsLoaded
  <1>7. ASSUME NEW r \in loads, ReadGroups(r) PROVE OpenedIsLoaded'
    <2>1. PICK q : /\ loads' = (loads \ {r}) \cup {q}
                   /\ \E said : q = [r EXCEPT !.read = TRUE, !.said = said]
      BY <1>7 DEF ReadGroups
    <2>2. q.unit = r.unit /\ q.current = r.current
      BY <2>1, TypesSplit DEF LoadTyped
    <2>3. UNCHANGED <<expanded, executing, pending, settled, mounted>>
      BY <1>7 DEF ReadGroups, page, choices
    <2> QED BY <2>1, <2>2, <2>3 DEF OpenedIsLoaded, Busy
  <1>8. ASSUME NEW r \in loads, NEW said, EndLoad(r, said) PROVE OpenedIsLoaded'
    <2>1. /\ Load(pending \cap expanded \cap {r.unit}, {}, {}, {r})
          /\ UNCHANGED <<expanded, executing, mounted>>
          /\ settled' = IF mounted /\ r.current THEN settled \cup {r.unit} ELSE settled
      BY <1>8 DEF EndLoad, page, choices
    <2> DEFINE us == pending \cap expanded \cap {r.unit}
    <2>2. us \subseteq Units /\ {r} \subseteq loads
      BY <1>0 DEF PlainTypes
    <2>3. ASSUME NEW u \in expanded' \ settled', mounted', ~Busy(u)'
          PROVE  \E s \in loads' : s.unit = u /\ (s.current \/ u \in pending')
      <3>1. PICK q \in loads : q.unit = u /\ (q.current \/ u \in pending)
        BY <2>1, <2>3 DEF OpenedIsLoaded, Busy
      <3>2. CASE u = r.unit
        <4>1. q = r
          BY <3>1, <3>2 DEF OneLoadPerUnit
        <4>2. ~r.current
          BY <2>1, <2>3, <3>2
        <4>3. u \in us
          BY <2>1, <2>3, <3>1, <3>2, <4>1, <4>2
        <4> QED BY <2>1, <2>2, <2>3, <4>3, <3>2, LoadReplaces
      <3>3. CASE u # r.unit
        BY <1>2, <2>1, <2>2, <3>1, <3>3
      <3> QED BY <3>2, <3>3
    <2> QED BY <2>3 DEF OpenedIsLoaded
  <1>9. CASE UnitStep
    BY <1>5, <1>6, <1>7, <1>8, <1>9 DEF UnitStep, ApplyGroups, FailGroups
  <1>10. ASSUME NEW j \in Jobs, EndChoice(j) PROVE OpenedIsLoaded'
    <2>1. /\ Load(expanded \cap {UnitOf[j]}, {UnitOf[j]}, {}, {})
          /\ UNCHANGED <<expanded, settled, mounted>>
          /\ executing' = [executing EXCEPT ![j] = "no"]
      BY <1>10 DEF EndChoice, page
    <2>2. expanded \cap {UnitOf[j]} \subseteq Units /\ {} \subseteq loads
      BY <1>0 DEF PlainTypes
    <2>3. ASSUME NEW u \in expanded' \ settled', mounted', ~Busy(u)'
          PROVE  \E s \in loads' : s.unit = u /\ (s.current \/ u \in pending')
      <3>1. CASE u = UnitOf[j]
        BY <2>1, <2>2, <2>3, <3>1, LoadStarts
      <3>2. CASE u # UnitOf[j]
        <4>1. ~Busy(u)
          BY <1>0, <2>1, <2>3, <3>2 DEF Busy, JobsOf, PlainTypes
        <4>2. \E q \in loads : q.unit = u /\ (q.current \/ u \in pending)
          BY <2>1, <2>3, <4>1 DEF OpenedIsLoaded
        <4>3. \A q \in {} : q.unit # u
          OBVIOUS
        <4>4. u \notin {}
          OBVIOUS
        <4> QED BY <1>2, <2>1, <2>2, <4>2, <4>3, <4>4
      <3> QED BY <3>1, <3>2
    <2> QED BY <2>3 DEF OpenedIsLoaded
  <1>11. ASSUME NEW j \in Jobs, Execute(j), UNCHANGED page PROVE OpenedIsLoaded'
    <2>1. /\ Load({}, {}, {UnitOf[j]}, {})
          /\ settled' = settled \ {UnitOf[j]}
          /\ executing' = [executing EXCEPT ![j] = "sent"]
      BY <1>11 DEF Execute
    <2>2. {} \subseteq Units /\ {} \subseteq loads
      OBVIOUS
    <2>3. ASSUME NEW u \in expanded' \ settled', mounted', ~Busy(u)'
          PROVE  \E s \in loads' : s.unit = u /\ (s.current \/ u \in pending')
      <3>1. u # UnitOf[j]
        BY <1>0, <2>1, <2>3 DEF Busy, JobsOf, PlainTypes
      <3>2. ~Busy(u)
        BY <1>0, <2>1, <2>3, <3>1 DEF Busy, JobsOf, PlainTypes
      <3>3. \E q \in loads : q.unit = u /\ (q.current \/ u \in pending)
        BY <1>11, <2>1, <2>3, <3>1, <3>2 DEF OpenedIsLoaded, page
      <3>4. \A q \in {} : q.unit # u
        OBVIOUS
      <3> DEFINE obsolete == {UnitOf[j]}
      <3>5. u \notin obsolete /\ Load({}, {}, obsolete, {})
        BY <2>1, <3>1
      <3> HIDE DEF obsolete
      <3> QED BY <1>2, <2>2, <3>3, <3>4, <3>5
    <2> QED BY <2>3 DEF OpenedIsLoaded
  <1>12. ASSUME NEW j \in Jobs, Approve(j) \/ LoseChoice(j) PROVE OpenedIsLoaded'
    <2>1. /\ UNCHANGED <<expanded, settled, mounted, loads, pending>>
          /\ executing[j] # "no"
          /\ \E reply \in {"done", "refused"} :
                executing' = [executing EXCEPT ![j] = reply]
      BY <1>12 DEF Approve, LoseChoice, page, groups
    <2>2. \A u \in Units : Busy(u) => Busy(u)'
      BY <1>0, <2>1 DEF Busy, JobsOf, PlainTypes
    <2> QED BY <1>0, <2>1, <2>2 DEF OpenedIsLoaded, PlainTypes
  <1>13. ASSUME NEW j \in Jobs,
                \/ Choose(j) \/ ChooseUpload(j) \/ EndUpload(j)
                \/ Approve(j) \/ LoseChoice(j) \/ EndChoice(j)
         PROVE  OpenedIsLoaded'
    <2>1. UNCHANGED page
      BY <1>13, ChoiceFrame
    <2>2. CASE UNCHANGED <<groups, executing>>
      BY <1>1, <2>1, <2>2 DEF page, groups
    <2> QED BY <1>10, <1>11, <1>12, <1>13, <2>1, <2>2
            DEF Choose, ChooseUpload, EndUpload
  <1>14. CASE UNCHANGED vars
    BY <1>1, <1>14 DEF vars, page, groups, choices
  <1> QED BY <1>4, <1>9, <1>13, <1>14 DEF Next, ChoiceStep

-----------------------------------------------------------------------------
(* The order of time. *)

LEMMA StepStatus ==
    ASSUME TypeOK, [Next]_vars
    PROVE  status' \in [Jobs -> Status] \/ UNCHANGED status
  <1>0. PlainTypes
    BY TypesSplit
  <1>1. ASSUME NEW j \in Jobs, Proceed(j) PROVE status' \in [Jobs -> Status]
    BY <1>0, <1>1, SummaryFacts DEF Proceed, PlainTypes, Over
  <1>2. ASSUME NEW j \in Jobs, Approve(j) PROVE status' \in [Jobs -> Status]
    BY <1>0, <1>2 DEF Approve, PlainTypes, Status, None, Over, Gone
  <1>3. CASE Restart
    BY <1>0, <1>3, SummaryFacts DEF Restart, PlainTypes, Gone
  <1>4. CASE PollStep
    <2>1. ASSUME NEW r \in refreshes,
                 ReadSummaries(r) \/ ApplySummaries(r) \/ FailSummaries(r)
          PROVE  UNCHANGED status
      BY <2>1 DEF ReadSummaries, ApplySummaries, FailSummaries, server
    <2> QED BY <1>4, <2>1
            DEF PollStep, Tick, SoonerFires, HideTab, ShowTab, Unmount,
                TransferStarted, RefreshRemoved, server
  <1>5. CASE UnitStep
    BY <1>5 DEF UnitStep, RemoveUnit, Toggle, ReadGroups, ApplyGroups,
                FailGroups, EndLoad, server
  <1>6. CASE ChoiceStep
    BY <1>2, <1>6 DEF ChoiceStep, Choose, ChooseUpload, EndUpload, LoseChoice,
                      EndChoice, server
  <1> QED BY <1>1, <1>3, <1>4, <1>5, <1>6
       DEF Next, ServerStep, Begin, FailToStart, Becomes, vars, server

\* A job's status only grows, and so does what a summary says of it.
LEMMA StatusGrows ==
    ASSUME TypeOK, [Next]_vars
    PROVE  \A j \in Jobs : status[j] <= status'[j]
                           /\ Summary(status[j]) <= Summary(status'[j])
  <1>0. PlainTypes
    BY TypesSplit
  <1>1. ASSUME status' \in [Jobs -> Status], \A j \in Jobs : status[j] <= status'[j]
        PROVE  \A j \in Jobs : Summary(status[j]) <= Summary(status'[j])
    BY <1>0, <1>1, SummaryFacts DEF PlainTypes
  <1>2. \A j \in Jobs : status[j] \in 0 .. 4
    BY <1>0, SummaryFacts DEF PlainTypes
  <1>3. ASSUME NEW j \in Jobs, Proceed(j)
        PROVE  \A i \in Jobs : status[i] <= status'[i]
    BY <1>0, <1>2, <1>3 DEF Proceed, PlainTypes
  <1>4. ASSUME Restart PROVE \A i \in Jobs : status[i] <= status'[i]
    BY <1>2, <1>4 DEF Restart, None, Over, Gone
  <1>5. ASSUME NEW j \in Jobs, Approve(j)
        PROVE  \A i \in Jobs : status[i] <= status'[i]
    BY <1>0, <1>2, <1>5 DEF Approve, PlainTypes, Offered, Over
  <1>6. ASSUME UNCHANGED status PROVE \A i \in Jobs : status[i] <= status'[i]
    BY <1>2, <1>6
  <1>7. ASSUME PollStep PROVE \A i \in Jobs : status[i] <= status'[i]
    <2>1. ASSUME NEW r \in refreshes,
                 ReadSummaries(r) \/ ApplySummaries(r) \/ FailSummaries(r)
          PROVE  UNCHANGED status
      BY <2>1 DEF ReadSummaries, ApplySummaries, FailSummaries, server
    <2> QED BY <1>6, <1>7, <2>1
            DEF PollStep, Tick, SoonerFires, HideTab, ShowTab, Unmount,
                TransferStarted, RefreshRemoved, server
  <1>8. ASSUME UnitStep PROVE \A i \in Jobs : status[i] <= status'[i]
    BY <1>6, <1>8 DEF UnitStep, RemoveUnit, Toggle, ReadGroups, ApplyGroups,
                      FailGroups, EndLoad, server
  <1>9. ASSUME ChoiceStep PROVE \A i \in Jobs : status[i] <= status'[i]
    BY <1>5, <1>6, <1>9 DEF ChoiceStep, Choose, ChooseUpload, EndUpload, LoseChoice,
                            EndChoice, server
  <1>10. \A j \in Jobs : status[j] <= status'[j]
    BY <1>3, <1>4, <1>6, <1>7, <1>8, <1>9
       DEF Next, ServerStep, Begin, FailToStart, Becomes, vars, server
  <1> QED BY <1>0, <1>1, <1>2, <1>10, StepStatus, SummaryFacts DEF PlainTypes

(* The status that is shown of a job never goes back while its unit is shown. *)
LEMMA SummariesFollow ==
    ASSUME TypeOK, OneRefresh, SummariesInOrder, [Next]_vars
    PROVE  /\ SummariesInOrder'
           /\ \A j \in Jobs : UnitOf[j] \in shown /\ UnitOf[j] \in shown' =>
                 seen[j] <= seen'[j]
  <1>0. PlainTypes /\ \A r \in refreshes : r \in RefreshTypes
    BY TypesSplit
  <1>1. /\ \A j \in Jobs : seen[j] \in 0 .. 4 /\ status[j] \in 0 .. 4
                           /\ Summary(status[j]) \in 0 .. 4
        /\ \A r \in refreshes : \A j \in Jobs : r.said.seen[j] \in 0 .. 4
    BY <1>0, SummaryFacts DEF PlainTypes, RefreshTypes
  <1>2. \A j \in Jobs : /\ Summary(status[j]) <= Summary(status'[j])
                        /\ Summary(status'[j]) \in 0 .. 4
    <2>1. status' \in [Jobs -> Status] \/ UNCHANGED status
      BY StepStatus
    <2> QED BY <1>0, <2>1, StatusGrows, SummaryFacts DEF PlainTypes
  \* A step that displays nothing new and reads nothing.
  <1>3. ASSUME UNCHANGED <<shown, seen>>,
               \A r \in refreshes' :
                   \/ r \in refreshes
                   \/ ~r.read /\ \A j \in Jobs : r.said.seen[j] = None
        PROVE  /\ SummariesInOrder'
               /\ \A j \in Jobs : seen[j] <= seen'[j]
    <2>1. \A j \in Jobs : seen'[j] <= Summary(status'[j])
      BY <1>1, <1>2, <1>3 DEF SummariesInOrder
    <2>2. \A r \in refreshes' : r.read => \A j \in Jobs : UnitOf[j] \in r.said.units =>
              seen'[j] <= r.said.seen[j] /\ r.said.seen[j] <= Summary(status'[j])
      BY <1>1, <1>2, <1>3 DEF SummariesInOrder
    <2>3. \A r \in refreshes' : \A j \in Jobs :
              UnitOf[j] \notin r.said.units => r.said.seen[j] = None
      BY <1>3 DEF SummariesInOrder
    <2>4. \A j \in Jobs : seen[j] <= seen'[j]
      BY <1>1, <1>3
    <2> QED BY <2>1, <2>2, <2>3, <2>4 DEF SummariesInOrder
  <1>4. CASE UNCHANGED <<requests, shown, seen>>
    BY <1>3, <1>4 DEF requests
  <1>5. CASE Refreshes
    BY <1>3, <1>5, RefreshFrame, RefreshFacts
  <1>6. ASSUME NEW r \in refreshes, ReadSummaries(r)
        PROVE  SummariesInOrder' /\ UNCHANGED seen
    <2>1. /\ refreshes = {r} /\ UNCHANGED <<seen, status, hidden, unitType>>
          /\ refreshes' = {[r EXCEPT !.read = TRUE, !.said = Summaries]}
      BY <1>6 DEF ReadSummaries, OneRefresh, page, server
    <2>2. \A q \in refreshes' : q.said = Summaries
      BY <1>0, <2>1 DEF RefreshTypes
    <2>3. \A j \in Jobs : /\ UnitOf[j] \in Summaries.units =>
                                Summaries.seen[j] = Summary(status[j])
                          /\ UnitOf[j] \notin Summaries.units => Summaries.seen[j] = None
      BY UnitOfAssumption DEF Summaries
    <2>4. \A j \in Jobs : seen'[j] <= Summary(status'[j])
      BY <2>1 DEF SummariesInOrder
    <2>5. \A q \in refreshes' : \A j \in Jobs : UnitOf[j] \in q.said.units =>
              seen'[j] <= q.said.seen[j] /\ q.said.seen[j] <= Summary(status'[j])
      <3>1. \A j \in Jobs : Summary(status'[j]) = Summary(status[j])
        BY <2>1
      <3>2. \A j \in Jobs : Summary(status[j]) <= Summary(status[j])
        BY <1>1
      <3>3. \A j \in Jobs : UnitOf[j] \in Summaries.units =>
                seen'[j] <= Summaries.seen[j]
                /\ Summaries.seen[j] <= Summary(status'[j])
        BY <2>3, <2>4, <3>1, <3>2
      <3> QED BY <2>2, <3>3
    <2>6. \A q \in refreshes' : \A j \in Jobs :
              UnitOf[j] \notin q.said.units => q.said.seen[j] = None
      BY <2>2, <2>3
    <2> QED BY <2>1, <2>4, <2>5, <2>6 DEF SummariesInOrder
  <1>7. ASSUME NEW r \in refreshes, ApplySummaries(r)
        PROVE  /\ SummariesInOrder'
               /\ \A j \in Jobs : UnitOf[j] \in shown' => seen[j] <= seen'[j]
    <2>1. /\ r.read /\ refreshes = {r} /\ refreshes' = {}
          /\ shown' = r.said.units /\ seen' = r.said.seen
      BY <1>7 DEF ApplySummaries, EndRefresh, OneRefresh
    <2>2. \A j \in Jobs : seen'[j] <= Summary(status'[j])
      BY <1>1, <1>2, <2>1 DEF SummariesInOrder, None
    <2> QED BY <2>1, <2>2 DEF SummariesInOrder
  <1>8. ASSUME NEW r \in refreshes, FailSummaries(r)
        PROVE  SummariesInOrder' /\ \A j \in Jobs : seen[j] <= seen'[j]
    BY <1>3, <1>8 DEF FailSummaries, EndRefresh
  <1>9. CASE ServerStep \/ PollStep
    <2>1. CASE ServerStep \/ HideTab \/ Unmount \/ TransferStarted
      BY <1>3, <1>4, <2>1, StayFrame DEF requests
    <2>2. CASE Refreshes
      BY <1>3, <2>2, RefreshFrame, RefreshFacts
    <2>3. CASE \E r \in refreshes : ReadSummaries(r) \/ ApplySummaries(r)
                                    \/ FailSummaries(r)
      BY <1>1, <1>6, <1>7, <1>8, <2>3
    <2> QED BY <1>9, <2>1, <2>2, <2>3 DEF PollStep, Refreshes
  <1>10. CASE UnitStep \/ ChoiceStep \/ UNCHANGED vars
    <2>1. UNCHANGED <<requests, shown, seen>>
      BY <1>10, UnitFrame, ChoiceFrame DEF ChoiceStep, vars, page
    <2> QED BY <1>3, <2>1 DEF requests
  <1> QED BY <1>9, <1>10 DEF Next

(* Nor does the row of a job. *)
LEMMA RowsFollow ==
    ASSUME TypeOK, OneLoadPerUnit, RowsInOrder, [Next]_vars
    PROVE  /\ RowsInOrder'
           /\ \A j \in Jobs : UnitOf[j] \in shown /\ UnitOf[j] \in shown' =>
                 rows[j] <= rows'[j]
  <1>0. PlainTypes /\ (\A r \in loads : LoadTyped(r))
    BY TypesSplit
  <1>1. \A j \in Jobs : rows[j] \in 0 .. 4 /\ status[j] \in 0 .. 4
    BY <1>0, SummaryFacts DEF PlainTypes
  <1>2. \A j \in Jobs : status[j] <= status'[j] /\ status'[j] \in 0 .. 4
    BY <1>0, StatusGrows, StepStatus, SummaryFacts DEF PlainTypes
  <1>3. \A r \in loads : \A j \in DOMAIN r.said : r.said[j] \in 0 .. 4
    BY <1>0, SummaryFacts DEF LoadTyped, GroupsOf, NoGroups
  \* What is read stays ahead of what is displayed as long as nothing is.
  <1>4. CASE UNCHANGED <<rows, loads>>
    <2>1. \A j \in Jobs : rows'[j] <= status'[j] /\ rows[j] <= rows'[j]
      BY <1>1, <1>2, <1>4 DEF RowsInOrder
    <2>2. \A r \in loads' : \A j \in DOMAIN r.said :
              j \in Jobs /\ UnitOf[j] = r.unit
              /\ rows'[j] <= r.said[j] /\ r.said[j] <= status'[j]
      BY <1>1, <1>2, <1>3, <1>4 DEF RowsInOrder
    <2> QED BY <2>1, <2>2 DEF RowsInOrder
  <1>5. ASSUME NEW us, us \subseteq Units, NEW forced, NEW obsolete,
               NEW ended, ended \subseteq loads, Load(us, forced, obsolete, ended),
               \A j \in Jobs : rows'[j] <= status'[j],
               \A r \in loads \ ended : \A j \in DOMAIN r.said : rows'[j] <= r.said[j]
        PROVE  RowsInOrder'
    <2>1. ASSUME NEW s \in loads', NEW j \in DOMAIN s.said
          PROVE  j \in Jobs /\ UnitOf[j] = s.unit
                 /\ rows'[j] <= s.said[j] /\ s.said[j] <= status'[j]
      <3>1. s.said = NoGroups
            \/ \E r \in loads \ ended : s.unit = r.unit /\ s.said = r.said
        BY <1>5, LoadReads
      <3>2. s.said # NoGroups
        BY DEF NoGroups
      <3>3. PICK r \in loads \ ended : s.unit = r.unit /\ s.said = r.said
        BY <3>1, <3>2
      <3>4. j \in Jobs /\ UnitOf[j] = r.unit /\ r.said[j] <= status[j]
            /\ r.said[j] \in 0 .. 4
        BY <1>3, <3>3 DEF RowsInOrder
      <3>5. r.said[j] <= status'[j]
        BY <1>1, <1>2, <3>4
      <3>6. rows'[j] <= r.said[j]
        BY <1>5, <3>3
      <3> QED BY <3>3, <3>4, <3>5, <3>6
    <2> QED BY <1>5, <2>1 DEF RowsInOrder
  <1>6. ASSUME NEW us, us \subseteq Units, NEW forced, NEW obsolete,
               Load(us, forced, obsolete, {}), UNCHANGED rows
        PROVE  RowsInOrder' /\ \A j \in Jobs : rows[j] <= rows'[j]
    <2>1. \A j \in Jobs : rows'[j] <= status'[j] /\ rows[j] <= rows'[j]
      BY <1>1, <1>2, <1>6 DEF RowsInOrder
    <2>2. \A r \in loads \ {} : \A j \in DOMAIN r.said : rows'[j] <= r.said[j]
      BY <1>6 DEF RowsInOrder
    <2>3. {} \subseteq loads
      OBVIOUS
    <2> QED BY <1>5, <1>6, <2>1, <2>2, <2>3
  <1>7. ASSUME NEW r \in refreshes, ApplySummaries(r)
        PROVE  /\ RowsInOrder'
               /\ \A j \in Jobs : UnitOf[j] \in shown' => rows[j] <= rows'[j]
    <2> DEFINE gone == Units \ r.said.units
               closed == gone \cup r.said.waits
    <2>1. /\ rows' = [j \in Jobs |-> IF UnitOf[j] \in gone THEN None ELSE rows[j]]
          /\ shown' = r.said.units
      BY <1>7 DEF ApplySummaries
    <2>2. \A j \in Jobs : rows'[j] = None \/ rows'[j] = rows[j]
      BY <2>1
    <2>3. \A j \in Jobs : UnitOf[j] \in shown' => rows[j] <= rows'[j]
      BY <1>1, <2>1
    <2>4. \A j \in Jobs : rows'[j] <= status'[j]
      BY <1>1, <1>2, <2>2 DEF RowsInOrder, None
    <2>5. \A q \in loads : \A j \in DOMAIN q.said : rows'[j] <= q.said[j]
      BY <1>3, <2>2 DEF RowsInOrder, None
    <2>6. CASE mounted
      <3>1. expanded' \subseteq Units /\ Load(expanded', {}, closed, {})
        BY <1>0, <1>7, <2>6 DEF ApplySummaries, PlainTypes
      <3> HIDE DEF closed
      <3>2. {} \subseteq loads
        OBVIOUS
      <3>3. RowsInOrder'
        BY <1>5, <2>4, <2>5, <3>1, <3>2
      <3> QED BY <2>3, <3>3
    <2>7. CASE ~mounted
      <3>1. loads' = loads
        BY <1>7, <2>7 DEF ApplySummaries
      <3>2. \A q \in loads : \A j \in DOMAIN q.said :
                j \in Jobs /\ UnitOf[j] = q.unit /\ q.said[j] <= status'[j]
        BY <1>1, <1>2, <1>3 DEF RowsInOrder
      <3> QED BY <2>3, <2>4, <2>5, <3>1, <3>2 DEF RowsInOrder
    <2> QED BY <2>6, <2>7
  <1>8. ASSUME NEW r \in loads, ReadGroups(r)
        PROVE  RowsInOrder' /\ UNCHANGED rows
    <2> DEFINE told == IF r.unit \in hidden THEN NoGroups
                       ELSE [j \in JobsOf(r.unit) |-> status[j]]
    <2>1. /\ loads' = (loads \ {r}) \cup {[r EXCEPT !.read = TRUE, !.said = told]}
          /\ UNCHANGED <<rows, status>>
      BY <1>8 DEF ReadGroups, server
    <2>2. \A j \in DOMAIN told : /\ j \in Jobs /\ UnitOf[j] = r.unit
                                 /\ told[j] = status[j]
      BY DEF NoGroups, JobsOf
    <2>3. \A j \in DOMAIN told : rows[j] <= told[j] /\ told[j] <= status[j]
      BY <1>1, <2>2 DEF RowsInOrder
    <2> HIDE DEF told
    <2>4. ASSUME NEW q, q = [r EXCEPT !.read = TRUE, !.said = told]
          PROVE  q.unit = r.unit /\ q.said = told
      BY <1>0, <2>4 DEF LoadTyped
    <2>5. \A q \in loads' : q \in loads \/ (q.unit = r.unit /\ q.said = told)
      BY <2>1, <2>4
    <2> QED BY <2>1, <2>2, <2>3, <2>5 DEF RowsInOrder
  <1>9. ASSUME NEW r \in loads, NEW said, EndLoad(r, said),
               \A j \in DOMAIN said : /\ j \in Jobs /\ UnitOf[j] = r.unit
                                      /\ rows[j] <= said[j] /\ said[j] <= status[j]
                                      /\ said[j] \in 0 .. 4
        PROVE  RowsInOrder' /\ \A j \in Jobs : rows[j] <= rows'[j]
    <2> DEFINE us == pending \cap expanded \cap {r.unit}
    <2>1. /\ \A j \in Jobs : \/ rows'[j] = rows[j]
                             \/ j \in DOMAIN said /\ rows'[j] = said[j]
          /\ Load(us, {}, {}, {r})
      BY <1>9 DEF EndLoad
    <2>2. \A j \in Jobs : rows'[j] <= status'[j] /\ rows[j] <= rows'[j]
      BY <1>1, <1>2, <1>9, <2>1 DEF RowsInOrder
    <2>3. us \subseteq Units /\ {r} \subseteq loads
      BY <1>0 DEF PlainTypes
    <2> HIDE DEF us
    <2>4. \A q \in loads \ {r} : q.unit # r.unit
      BY DEF OneLoadPerUnit
    <2>5. \A q \in loads \ {r} : \A j \in DOMAIN q.said : rows'[j] <= q.said[j]
      BY <1>9, <2>1, <2>4 DEF RowsInOrder
    <2> QED BY <1>5, <2>1, <2>2, <2>3, <2>5
  <1>10. CASE ServerStep \/ PollStep
    <2>1. ASSUME UNCHANGED groups
          PROVE  RowsInOrder' /\ \A j \in Jobs : rows[j] <= rows'[j]
      BY <1>1, <1>4, <2>1 DEF groups
    <2>2. ASSUME NEW r \in refreshes, ReadSummaries(r) \/ FailSummaries(r)
          PROVE  UNCHANGED groups
      BY <2>2 DEF ReadSummaries, FailSummaries
    <2> QED BY <1>7, <1>10, <2>1, <2>2, StayFrame, RefreshFrame
            DEF PollStep, Refreshes
  <1>11. CASE UnitStep
    <2>1. ASSUME NEW u \in Units, RemoveUnit(u) PROVE UNCHANGED <<rows, loads>>
      BY <2>1 DEF RemoveUnit, groups
    <2>2. ASSUME NEW u \in Units, Toggle(u)
          PROVE  Load(expanded', expanded', expanded, {}) /\ expanded' \subseteq Units
                 /\ UNCHANGED rows
      BY <2>2 DEF Toggle
    <2>3. ASSUME NEW r \in loads, ApplyGroups(r)
          PROVE  RowsInOrder' /\ \A j \in Jobs : rows[j] <= rows'[j]
      BY <1>3, <1>9, <2>3 DEF ApplyGroups, RowsInOrder
    <2>4. ASSUME NEW r \in loads, FailGroups(r)
          PROVE  RowsInOrder' /\ \A j \in Jobs : rows[j] <= rows'[j]
      <3>1. DOMAIN NoGroups = {}
        BY DEF NoGroups
      <3> QED BY <1>9, <2>4, <3>1 DEF FailGroups
    <2>5. \A j \in Jobs : rows[j] <= rows[j]
      BY <1>1
    <2> QED BY <1>4, <1>6, <1>8, <1>11, <2>1, <2>2, <2>3, <2>4, <2>5 DEF UnitStep
  <1>12. CASE ChoiceStep
    <2>1. ASSUME NEW j \in Jobs, EndChoice(j)
          PROVE  /\ Load(expanded \cap {UnitOf[j]}, {UnitOf[j]}, {}, {})
                 /\ expanded \cap {UnitOf[j]} \subseteq Units
      BY <1>0, <2>1 DEF EndChoice, PlainTypes
    <2>2. ASSUME NEW j \in Jobs, Execute(j) PROVE Load({}, {}, {UnitOf[j]}, {})
      BY <2>2 DEF Execute
    <2>3. UNCHANGED rows
      BY <1>12, ChoiceFrame DEF ChoiceStep
    <2> QED BY <1>4, <1>6, <1>12, <2>1, <2>2, <2>3, ChoiceFrame DEF ChoiceStep
  <1>13. CASE UNCHANGED vars
    BY <1>4, <1>13 DEF vars, groups
  <1> QED BY <1>10, <1>11, <1>12, <1>13 DEF Next

-----------------------------------------------------------------------------
(* A page that was left. *)

LEMMA LeftIsQuiet ==
    ASSUME TypeOK, OneRefresh, OneLoadPerUnit, PollingGoesOn, ~mounted, [Next]_vars
    PROVE  /\ ~interval' /\ ~sooner'
           /\ isRefreshing' => isRefreshing
           /\ loading' \subseteq loading
           /\ \A j \in Jobs : executing[j] = "no" => executing'[j] = "no"
  <1>1. ~interval /\ ~sooner
    BY DEF PollingGoesOn
  <1>2. loading' \subseteq loading
    BY StepOneLoad
  <1>3. ~mounted'
    <2>1. CASE ServerStep \/ PollStep
      <3>1. ASSUME NEW r \in refreshes,
                   ReadSummaries(r) \/ ApplySummaries(r) \/ FailSummaries(r)
            PROVE  UNCHANGED mounted
        BY <3>1 DEF ReadSummaries, ApplySummaries, FailSummaries, EndRefresh, page
      <3> QED BY <2>1, <3>1, RefreshFrame
              DEF ServerStep, PollStep, Refreshes, Proceed, Begin, FailToStart,
                  Becomes, Restart, HideTab, Unmount, TransferStarted, page
    <2> QED BY <2>1, UnitFrame, ChoiceFrame DEF Next, ChoiceStep, vars, page
  <1>4. PollingGoesOn'
    BY PollingFollows
  <1>5. isRefreshing' => isRefreshing
    <2>1. CASE Refreshes
      BY <2>1, RefreshFrame, RefreshFacts
    <2>2. ASSUME NEW r \in refreshes,
                 ReadSummaries(r) \/ ApplySummaries(r) \/ FailSummaries(r)
          PROVE  isRefreshing' => isRefreshing
      BY <2>2 DEF ReadSummaries, ApplySummaries, FailSummaries, EndRefresh
    <2>3. CASE UNCHANGED requests
      BY <2>3 DEF requests
    <2>4. CASE ServerStep \/ PollStep
      BY <2>1, <2>2, <2>3, <2>4, StayFrame DEF PollStep, Refreshes
    <2> QED BY <2>3, <2>4, UnitFrame, ChoiceFrame DEF Next, ChoiceStep, vars
  <1>6. \A j \in Jobs : executing[j] = "no" => executing'[j] = "no"
    <2>0. executing \in [Jobs -> {"no", "sent", "done", "refused"}]
      BY DEF TypeOK
    <2>1. CASE ChoiceStep
      <3>1. \A j \in Jobs : ~Current(j)
        BY DEF Current
      <3> QED BY <2>0, <2>1, <3>1
              DEF ChoiceStep, Choose, ChooseUpload, EndUpload, Approve, LoseChoice,
                  EndChoice
    <2>2. CASE UNCHANGED executing
      BY <2>2
    <2>3. CASE ServerStep \/ PollStep
      <3>1. ASSUME NEW r \in refreshes,
                   ReadSummaries(r) \/ ApplySummaries(r) \/ FailSummaries(r)
            PROVE  UNCHANGED executing
        BY <3>1 DEF ReadSummaries, ApplySummaries, FailSummaries, choices
      <3> QED BY <2>2, <2>3, <3>1, StayFrame, RefreshFrame DEF PollStep, Refreshes, choices
    <2> QED BY <2>1, <2>2, <2>3, UnitFrame DEF Next, vars, choices
  <1> QED BY <1>2, <1>3, <1>4, <1>5, <1>6 DEF PollingGoesOn

-----------------------------------------------------------------------------
(* The theorems. *)

\* The inductive invariant.
MonitorInv == TypeOK /\ MonitorAgrees /\ PollingGoesOn /\ OpenedIsLoaded

(* The inductive invariant holds when the page is opened. *)
LEMMA InitMonitor == Init => MonitorInv
  <1> SUFFICES ASSUME Init PROVE MonitorInv
    OBVIOUS
  <1>1. TypeOK /\ PlainTypes
    BY InitTyped, TypesSplit
  <1>2. OneRefresh /\ OneLoadPerUnit
    BY DEF Init, OneRefresh, OneLoadPerUnit
  <1>3. PollingGoesOn /\ OpenedIsLoaded
    BY DEF Init, PollingGoesOn, OpenedIsLoaded
  <1>4. SummariesInOrder
    <2>1. \A j \in Jobs : seen[j] <= Summary(status[j])
      BY <1>1, SummaryFacts DEF Init, PlainTypes, None
    <2>2. \A r \in refreshes : r = SummariesRequest("nothing")
      BY DEF Init
    <2> QED BY <2>1, <2>2 DEF SummariesInOrder, SummariesRequest
  <1>5. RowsInOrder
    BY <1>1, SummaryFacts DEF Init, RowsInOrder, PlainTypes, None
  <1> QED BY <1>1, <1>2, <1>3, <1>4, <1>5 DEF MonitorInv, MonitorAgrees

(* Every step preserves the inductive invariant. *)
LEMMA StepMonitor == MonitorInv /\ [Next]_vars => MonitorInv'
  <1> SUFFICES ASSUME MonitorInv, [Next]_vars PROVE MonitorInv'
    OBVIOUS
  <1>1. /\ TypeOK /\ OneRefresh /\ OneLoadPerUnit /\ SummariesInOrder
        /\ RowsInOrder /\ PollingGoesOn /\ OpenedIsLoaded
    BY DEF MonitorInv, MonitorAgrees
  <1>2. TypeOK' /\ OneRefresh' /\ OneLoadPerUnit'
    BY <1>1, StepTyped, StepOneRefresh, StepOneLoad
  <1>3. SummariesInOrder' /\ RowsInOrder'
    BY <1>1, SummariesFollow, RowsFollow
  <1>4. PollingGoesOn' /\ OpenedIsLoaded'
    BY <1>1, PollingFollows, OpenedFollows
  <1> QED BY <1>2, <1>3, <1>4 DEF MonitorInv, MonitorAgrees

(* The inductive invariant holds in every reachable state. *)
LEMMA AlwaysMonitorInv == Spec => []MonitorInv
  BY InitMonitor, StepMonitor, PTL DEF Spec

(* Every value of the state is of its type, for any units, jobs and types: in   *)
(* particular a request is for one unit, and says only what the server can.     *)
THEOREM MonitorTypeCorrect == Spec => []TypeOK
  BY AlwaysMonitorInv, PTL DEF MonitorInv

(* The flags of useProcessingMonitor.ts and of ProcessMonitor.vue are the       *)
(* requests under way, one for the summaries and one for each unit, and what is *)
(* displayed is not newer than what was read, nor that than what is known.      *)
THEOREM AlwaysMonitorAgrees == Spec => []MonitorAgrees
  BY AlwaysMonitorInv, PTL DEF MonitorInv

(* However the tab is hidden, shown, left, or a sooner poll is asked for while  *)
(* a refresh is under way, an open page in front has one timer or the refresh   *)
(* that will set it.                                                            *)
THEOREM AlwaysPolling == Spec => []PollingGoesOn
  BY AlwaysMonitorInv, PTL DEF MonitorInv

(* Whatever closes, reopens or invalidates the request of a unit, the jobs of   *)
(* the unit that is open are loaded, being loaded, or about to be.              *)
THEOREM AlwaysOpenedIsLoaded == Spec => []OpenedIsLoaded
  BY AlwaysMonitorInv, PTL DEF MonitorInv

(* No answer that arrives late takes the display back: one request at a time    *)
(* and the generations of requestedUnitGroupGenerations are enough.             *)
THEOREM AlwaysForward == Spec => ForwardOnly
  <1> DEFINE Forward == \A j \in Jobs : UnitOf[j] \in shown /\ UnitOf[j] \in shown' =>
                            seen[j] <= seen'[j] /\ rows[j] <= rows'[j]
  <1>1. ASSUME MonitorInv, [Next]_vars PROVE Forward
    BY <1>1, SummariesFollow, RowsFollow DEF MonitorInv, MonitorAgrees
  <1>2. ASSUME MonitorInv, [Next]_vars PROVE [Forward]_vars
    BY <1>1, <1>2
  <1> QED BY <1>2, AlwaysMonitorInv, PTL DEF Spec, ForwardOnly

(* After onUnmounted no continuation of a request that was under way sets a     *)
(* timer, sends a request or executes a choice.                                 *)
THEOREM AlwaysQuiet == Spec => QuietWhenLeft
  <1> DEFINE Quiet == ~mounted => /\ ~interval' /\ ~sooner'
                                  /\ isRefreshing' => isRefreshing
                                  /\ loading' \subseteq loading
                                  /\ \A j \in Jobs :
                                        executing[j] = "no" => executing'[j] = "no"
  <1>1. ASSUME MonitorInv, [Next]_vars PROVE Quiet
    BY <1>1, LeftIsQuiet DEF MonitorInv, MonitorAgrees
  <1>2. ASSUME MonitorInv, [Next]_vars PROVE [Quiet]_vars
    BY <1>1, <1>2
  <1> QED BY <1>2, AlwaysMonitorInv, PTL DEF Spec, QuietWhenLeft
=============================================================================
