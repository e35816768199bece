--------------------------- MODULE TransferArrival --------------------------
(***************************************************************************)
(* How a transfer that waits for approval comes in: it is left in a        *)
(* watched directory by a user, or by _start_package_transfer for a client *)
(* (packages.py, transfer_source_retrieval.py); the watching thread        *)
(* reports it (watch_dirs.py); watched_dir_handler finds or creates its    *)
(* row and starts a chain, which stops at a decision (mcp.py,              *)
(* decisions.py); a client takes the decision by path or by job            *)
(* (rpc_server.py) and a client script moves the package on; and MCPServer *)
(* is restarted.                                                           *)
(*                                                                         *)
(* There is one watched directory, of directories or of archives.  The     *)
(* queue between chain and executor is PackageQueue and appears here only  *)
(* as the delay of its jobs; a script may outlive MCPServer, as in         *)
(* TaskExecution.                                                          *)
(***************************************************************************)
EXTENDS Integers, Sequences, FiniteSets

CONSTANTS
    Packages,       \* what is left in the watched directory, each once
    NoPackage,
    Submitted,      \* the packages _start_package_transfer leaves there
    Names,          \* the names of entries of the watched directory
    NoName,
    NamesOf,        \* [Packages -> Seq(Names)]: its name, and padded ones
    IsDir,          \* are the entries directories, or archives?
    Methods,        \* the watch methods to consider
    Clients,        \* the callers of approveTransferByPath and approveJob
    MaxDeliveries,  \* bound on the packages that come in
    MaxRestarts     \* bound on the crashes of MCPServer

ASSUME ArrivalAssumption ==
    /\ NoPackage \notin Packages /\ NoName \notin Names
    /\ Submitted \subseteq Packages
    /\ NamesOf \in [Packages -> Seq(Names)]
    /\ \A p \in Packages : Len(NamesOf[p]) > 0
    /\ IsDir \in BOOLEAN
    /\ Methods \subseteq {"poll", "inotify"}
    /\ MaxDeliveries \in Nat /\ MaxRestarts \in Nat

VARIABLES
    method,     \* WATCH_DIRECTORY_METHOD
    at,         \* [Names -> Packages]: the watched directory
    progress,   \* [Packages -> Progress]: how far its delivery is
    dest,       \* [Packages -> Names]: the free name that was chosen for it
    own,        \* [Packages -> Nat]: its row when it is a submitted one
    transfers,  \* rows [location, status], in the order of their creation
    chains,     \* chains [transfer, about, phase, directory, row, ours]
    watch,      \* where the watching thread is
    events,     \* inotify events that were not read yet
    found,      \* entries of the scan that were not looked at yet
    known,      \* known_paths
    current,    \* current_paths
    client,     \* [Clients -> Nat]: the chain whose row a client found, or 0
    up,         \* is MCPServer running?
    restarts,
    early       \* history: packages that came between add_watch and the end of
                \* the scan after it

delivery == <<progress, dest, own>>
watcher == <<watch, events, found, known, current>>
vars == <<method, at, delivery, transfers, chains, watcher, client, up, restarts,
          early>>

\* A location is a name of the watched directory, with or without the slash
\* that ends the path of a directory; or it is somewhere else.
Locations == [name : Names \cup {NoName}, slash : BOOLEAN]
Elsewhere == [name |-> NoName, slash |-> FALSE]
Statuses == {"unknown", "processing", "done", "failed"}
Progress == {"away", "copied", "chosen", "renamed", "delivered", "lost"}
Phases == {"scheduled", "saved", "marked", "offered", "approved", "sent", "mv",
           "moved", "ended", "lost"}
Rows == {"none", "executing", "awaiting", "completed", "failed", "deleted"}
WatchStates == {"start", "watching", "scan", "loop", "dead"}

Transfer(l, s) == [location |-> l, status |-> s]
Present == {n \in Names : at[n] # NoPackage}
Chains == DOMAIN chains

Init ==
    /\ method \in Methods
    /\ at = [n \in Names |-> NoPackage]
    /\ progress = [p \in Packages |-> "away"]
    /\ dest = [p \in Packages |-> NoName]
    /\ own = [p \in Packages |-> 0]
    /\ transfers = <<>>
    /\ chains = <<>>
    /\ watch = "start"
    /\ events = <<>>
    /\ found = {} /\ known = {} /\ current = {}
    /\ client = [c \in Clients |-> 0]
    /\ up = TRUE
    /\ restarts = 0
    /\ early = {}

-----------------------------------------------------------------------------
(* Packages come in                                                        *)

\* Mutation of Appear: the watch is added after the scan.
AppearUnwatched(p, n) ==
    /\ at' = [at EXCEPT ![n] = p]
    /\ events' = IF method = "inotify" /\ watch = "loop" THEN Append(events, n) ELSE events
    /\ UNCHANGED <<found, early>>
\* p appears under the name n; inotify tells if the watch was added, and a scan
\* that is under way may still come across it.
Appear(p, n) ==
    /\ at' = [at EXCEPT ![n] = p]
    /\ events' = IF method = "inotify" /\ watch \in {"watching", "scan", "loop"}
                 THEN Append(events, n) ELSE events
    /\ found' \in {found} \cup (IF watch = "scan" THEN {found \cup {n}} ELSE {})
    /\ early' = IF method = "inotify" /\ watch \in {"watching", "scan"}
                THEN early \cup {p} ELSE early

\* p may still come in.
Ready(p) ==
    /\ progress[p] = "away"
    /\ Cardinality({q \in Packages : progress[q] # "away"}) < MaxDeliveries

\* A user moves a package into the watched directory.
Drop(p) ==
    /\ p \notin Submitted /\ Ready(p)
    /\ at[NamesOf[p][1]] = NoPackage
    /\ Appear(p, NamesOf[p][1])
    /\ progress' = [progress EXCEPT ![p] = "delivered"]
    /\ UNCHANGED <<method, dest, own, transfers, chains, watch, known, current,
                   client, up, restarts>>

\* create_package without auto_approve, and the copy into a staging directory.
CreateRow(p) ==
    /\ p \in Submitted /\ up /\ Ready(p)
    /\ transfers' = Append(transfers, Transfer(Elsewhere, "unknown"))
    /\ own' = [own EXCEPT ![p] = Len(transfers) + 1]
    /\ progress' = [progress EXCEPT ![p] = "copied"]
    /\ UNCHANGED <<method, at, dest, chains, watcher, client, up, restarts, early>>

\* pad_destination_path_if_it_already_exists: the first name that is free.
ChooseName(p) ==
    /\ progress[p] = "copied"
    /\ \E i \in DOMAIN NamesOf[p] :
           /\ NamesOf[p][i] \notin Present
           /\ \A k \in 1 .. i - 1 : NamesOf[p][k] \in Present
           /\ dest' = [dest EXCEPT ![p] = NamesOf[p][i]]
    /\ progress' = [progress EXCEPT ![p] = "chosen"]
    /\ UNCHANGED <<method, at, own, transfers, chains, watcher, client, up, restarts,
                   early>>

\* rename: an archive replaces one that came meanwhile, a directory does not,
\* and the exception is only logged.
Rename(p) ==
    /\ progress[p] = "chosen"
    /\ IF dest[p] \in Present /\ IsDir
       THEN /\ progress' = [progress EXCEPT ![p] = "lost"]
            /\ UNCHANGED <<at, events, found, early>>
       ELSE /\ progress' = [progress EXCEPT ![p] = "renamed"]
            /\ Appear(p, dest[p])
    /\ UNCHANGED <<method, dest, own, transfers, chains, watch, known, current,
                   client, up, restarts>>

\* The row gets the location, which has no slash, and every other field of the
\* object create_package made.
SaveLocation(p) ==
    /\ progress[p] = "renamed"
    /\ transfers' = [transfers EXCEPT ![own[p]] =
                         Transfer([name |-> dest[p], slash |-> FALSE], "unknown")]
    /\ progress' = [progress EXCEPT ![p] = "delivered"]
    /\ UNCHANGED <<method, at, dest, own, chains, watcher, client, up, restarts, early>>

-----------------------------------------------------------------------------
(* The watching thread                                                     *)

\* watched_dir_handler adds the slash if it still finds a directory.
PathOf(n) == [name |-> n, slash |-> IsDir /\ n \in Present]

\* Mutation of Processing: the status of a row that was found is left alone.
ProcessingIfNew(t) == [transfers[t] EXCEPT !.status =
                           IF @ = "unknown" THEN "processing" ELSE @]
Processing(t) == [transfers[t] EXCEPT !.status = "processing"]

\* Mutation of Matching: a row is only matched as long as it is not failed.
MatchingUnfailed(path) ==
    {t \in DOMAIN transfers :
         transfers[t].location = path /\ transfers[t].status # "failed"}
\* The rows Transfer.get_or_create_from_db_by_path looks at.  Its look-up by a
\* UUID at the end of the path is left out: the packages here have none.
Matching(path) == {t \in DOMAIN transfers : transfers[t].location = path}

\* watched_dir_handler: one row, found or created, is marked as processing
\* and gets a chain.  Several rows of one location raise an exception, which
\* ends the thread.
Handle(n, next) ==
    LET path == PathOf(n)
        t == IF Matching(path) = {} THEN Len(transfers) + 1
             ELSE CHOOSE u \in Matching(path) : TRUE
    IN  IF Cardinality(Matching(path)) > 1
        THEN watch' = "dead" /\ UNCHANGED <<transfers, chains>>
        ELSE /\ watch' = next
             /\ transfers' = IF Matching(path) = {}
                             THEN Append(transfers, Transfer(path, "processing"))
                             ELSE [transfers EXCEPT ![t] = Processing(t)]
             /\ chains' = Append(chains, [transfer |-> t, about |-> at[n],
                                          phase |-> "scheduled", directory |-> Elsewhere,
                                          row |-> "none", ours |-> TRUE])

\* inotify: the watch comes first, what is there already is found by a scan.
AddWatch ==
    /\ up /\ method = "inotify" /\ watch = "start"
    /\ watch' = "watching"
    /\ UNCHANGED <<method, at, delivery, transfers, chains, events, found, known,
                   current, client, up, restarts, early>>

Scan ==
    /\ up
    /\ \/ method = "inotify" /\ watch = "watching"
       \/ method = "poll" /\ watch \in {"start", "loop"}
    /\ found' = Present
    /\ current' = {}
    /\ watch' = "scan"
    /\ UNCHANGED <<method, at, delivery, transfers, chains, events, known, client, up,
                   restarts, early>>

\* An entry of the scan that is not known yet is reported.
ReportFound(n) ==
    /\ up /\ watch = "scan" /\ n \in found \ known
    /\ Handle(n, "scan")
    /\ found' = found \ {n}
    /\ current' = current \cup {n}
    /\ UNCHANGED <<method, at, delivery, events, known, client, up, restarts, early>>

\* Mutation of SkipKnown: the entry is not kept for the next pass.
SkipForgotten(n) ==
    /\ up /\ watch = "scan" /\ n \in found \cap known
    /\ found' = found \ {n}
    /\ UNCHANGED <<method, at, delivery, transfers, chains, watch, events, known,
                   current, client, up, restarts, early>>

SkipKnown(n) ==
    /\ up /\ watch = "scan" /\ n \in found \cap known
    /\ found' = found \ {n}
    /\ current' = current \cup {n}
    /\ UNCHANGED <<method, at, delivery, transfers, chains, watch, events, known, client,
                   up, restarts, early>>

EndScan ==
    /\ up /\ watch = "scan" /\ found = {}
    /\ known' = IF method = "poll" THEN current ELSE known
    /\ watch' = "loop"
    /\ UNCHANGED <<method, at, delivery, transfers, chains, events, found, current,
                   client, up, restarts, early>>

\* inotify.read
ReportEvent ==
    /\ up /\ watch = "loop" /\ events # <<>>
    /\ Handle(Head(events), "loop")
    /\ events' = Tail(events)
    /\ UNCHANGED <<method, at, delivery, found, known, current, client, up, restarts,
                   early>>

-----------------------------------------------------------------------------
(* A chain: the decision, then the script that moves the package           *)

\* Chain j goes from one phase to another one.
Step(j, from, to) ==
    /\ chains[j].phase = from
    /\ chains' = [chains EXCEPT ![j].phase = to]
\* The same, and the row of its decision changes.
StepRow(j, from, to, row) ==
    /\ chains[j].phase = from
    /\ chains' = [chains EXCEPT ![j].phase = to, ![j].row = row]
OnlyChains == UNCHANGED <<method, at, delivery, transfers, watcher, client, up, restarts,
                          early>>

\* DecisionJob.run: the package is loaded again and the row saved.
SaveRow(j) ==
    /\ chains[j].phase = "scheduled"
    /\ chains' = [chains EXCEPT ![j].phase = "saved", ![j].row = "executing",
                      ![j].directory = transfers[chains[j].transfer].location]
    /\ OnlyChains

\* The processing configuration has the answer.
Preconfigured(j) == StepRow(j, "saved", "approved", "completed") /\ OnlyChains

MarkAwaiting(j) == StepRow(j, "saved", "marked", "awaiting") /\ OnlyChains

\* await_decision: the job is put in waiting_choices.
Offer(j) == Step(j, "marked", "offered") /\ OnlyChains

\* approveTransferByPath finds the row by its directory; approveJob is for a
\* job of jobs_awaiting_decisions.
FindRow(c, j) ==
    /\ up /\ client[c] = 0
    /\ \/ chains[j].row = "awaiting" /\ chains[j].directory # Elsewhere
       \/ chains[j].phase = "offered"
    /\ client' = [client EXCEPT ![c] = j]
    /\ UNCHANGED <<method, at, delivery, transfers, chains, watcher, up, restarts, early>>

\* decide, under the lock of waiting_choices; a job that is not there, or not
\* any more, is a NotFoundError.  The row is completed just before the choice is
\* deleted, in one step here; PackageQueue has what schedule_job does afterwards.
Decide(c) ==
    /\ client[c] # 0
    /\ IF chains[client[c]].phase = "offered"
       THEN StepRow(client[c], "offered", "approved", "completed")
       ELSE UNCHANGED chains
    /\ client' = [client EXCEPT ![c] = 0]
    /\ UNCHANGED <<method, at, delivery, transfers, watcher, up, restarts, early>>

\* The next job loads the package again and sends its path to MCPClient.
SendMove(j) ==
    /\ chains[j].phase = "approved"
    /\ chains' = [chains EXCEPT ![j].phase = "sent",
                      ![j].directory = transfers[chains[j].transfer].location]
    /\ OnlyChains

\* mv, inside the transaction that has changed the location of the row.
Move(j) ==
    /\ Step(j, "sent", "mv")
    /\ at' = [n \in Names |-> IF n = chains[j].directory.name THEN NoPackage ELSE at[n]]
    /\ UNCHANGED <<method, delivery, transfers, watcher, client, up, restarts, early>>

\* Mutation of Commit: the chain goes on although MCPServer was restarted.
CommitAlways(j) ==
    /\ Step(j, "mv", "moved")
    /\ transfers' = [transfers EXCEPT ![chains[j].transfer].location = Elsewhere]
    /\ UNCHANGED <<method, at, delivery, watcher, client, up, restarts, early>>

\* The transaction ends, whether or not there was something to move.
Commit(j) ==
    /\ Step(j, "mv", IF chains[j].ours THEN "moved" ELSE "lost")
    /\ transfers' = [transfers EXCEPT ![chains[j].transfer].location = Elsewhere]
    /\ UNCHANGED <<method, at, delivery, watcher, client, up, restarts, early>>

\* The rest of the chain: the package ends.
EndChain(j) ==
    /\ Step(j, "moved", "ended")
    /\ \E s \in {"done", "failed"} :
           transfers' = [transfers EXCEPT ![chains[j].transfer].status = s]
    /\ UNCHANGED <<method, at, delivery, watcher, client, up, restarts, early>>

-----------------------------------------------------------------------------
(* MCPServer dies and starts again                                         *)

\* A script that was sent runs all the same, or is forgotten.
Orphan(ch, kept) ==
    [ch EXCEPT !.ours = FALSE,
               !.phase = IF @ \in {"mv", "ended"} \/ (@ = "sent" /\ kept) THEN @ ELSE "lost"]

Crash ==
    /\ up /\ restarts < MaxRestarts
    /\ up' = FALSE
    /\ restarts' = restarts + 1
    /\ \E kept \in BOOLEAN : chains' = [j \in Chains |-> Orphan(chains[j], kept)]
    /\ progress' = [p \in Packages |->
                        IF progress[p] \in {"copied", "chosen", "renamed"} THEN "lost"
                        ELSE progress[p]]
    /\ watch' = "start"
    /\ events' = <<>>
    /\ found' = {} /\ known' = {} /\ current' = {}
    /\ client' = [c \in Clients |-> 0]
    /\ early' = {}
    /\ UNCHANGED <<method, at, dest, own, transfers>>

\* Mutation of CleanRow: rows that await a decision are kept.
CleanExecuting(r) == IF r = "executing" THEN "failed" ELSE r
\* Job.cleanup_old_db_entries
CleanRow(r) ==
    CASE r = "awaiting" -> "deleted" [] r = "executing" -> "failed" [] OTHER -> r

\* Package.cleanup_old_db_entries
CleanStatus(s) == IF s \in {"unknown", "processing"} THEN "failed" ELSE s

\* The clean-ups of main, before any thread is started.
CleanUp ==
    /\ ~ up
    /\ up' = TRUE
    /\ transfers' = [t \in DOMAIN transfers |->
                         [transfers[t] EXCEPT !.status = CleanStatus(@)]]
    /\ chains' = [j \in Chains |-> [chains[j] EXCEPT !.row = CleanRow(@)]]
    /\ UNCHANGED <<method, at, delivery, watcher, client, restarts, early>>

-----------------------------------------------------------------------------
Deliver(p) == ChooseName(p) \/ Rename(p) \/ SaveLocation(p)
WatchStep ==
    \/ AddWatch \/ Scan \/ EndScan \/ ReportEvent
    \/ \E n \in Names : ReportFound(n) \/ SkipKnown(n)
ChainStep(j) ==
    \/ SaveRow(j) \/ MarkAwaiting(j) \/ Offer(j)
    \/ SendMove(j) \/ Move(j) \/ Commit(j) \/ EndChain(j)

Next ==
    \/ \E p \in Packages : Drop(p) \/ CreateRow(p) \/ Deliver(p)
    \/ WatchStep
    \/ \E j \in Chains : ChainStep(j) \/ Preconfigured(j)
    \/ \E c \in Clients : Decide(c) \/ \E j \in Chains : FindRow(c, j)
    \/ Crash \/ CleanUp

\* Reports is more chains than there can be: a package is reported twice in
\* the life of MCPServer in which it came, and once in every later one.
Reports == 1 .. (MaxRestarts + 2) * Cardinality(Packages)
StepOf(j) == j \in Chains /\ (ChainStep(j) \/ Preconfigured(j))

\* Threads and scripts make progress and a supervisor restarts MCPServer;
\* users and clients may do nothing.
Fairness ==
    /\ WF_vars(WatchStep) /\ WF_vars(CleanUp)
    /\ \A j \in Reports : WF_vars(StepOf(j))
    /\ \A p \in Packages : WF_vars(Deliver(p))

Spec == Init /\ [][Next]_vars
LiveSpec == Spec /\ Fairness

-----------------------------------------------------------------------------
(* Properties                                                              *)

\* Types of all variables; a job in the memory of MCPServer is of its present
\* life, and so is a job a client has found.
TypeOK ==
    /\ method \in Methods
    /\ at \in [Names -> Packages \cup {NoPackage}]
    /\ progress \in [Packages -> Progress]
    /\ dest \in [Packages -> Names \cup {NoName}]
    /\ transfers \in Seq([location : Locations, status : Statuses])
    /\ own \in [Packages -> 0 .. Len(transfers)]
    /\ chains \in Seq([transfer : 1 .. Len(transfers), about : Packages \cup {NoPackage},
                       phase : Phases, directory : Locations, row : Rows, ours : BOOLEAN])
    /\ watch \in WatchStates
    /\ events \in Seq(Names)
    /\ found \subseteq Names /\ known \subseteq Names /\ current \subseteq Names
    /\ client \in [Clients -> 0 .. Len(chains)]
    /\ up \in BOOLEAN /\ restarts \in 0 .. MaxRestarts
    /\ early \subseteq Packages
    /\ \A j \in Chains :
           chains[j].phase \notin {"sent", "mv", "ended", "lost"} => chains[j].ours
    /\ \A c \in Clients : client[c] # 0 => up /\ chains[client[c]].ours

\* The rows that await a decision are those of the jobs that can be decided,
\* or will be as soon as their run returns: none is left over from before a
\* restart, and none is decided and still shown as waiting.
AwaitingIsOffered ==
    up => \A j \in Chains :
              chains[j].row = "awaiting" <=> chains[j].phase \in {"marked", "offered"}

\* A transfer that waits for a decision is shown as processing, also when a
\* restart had failed it, unless another chain of it has come to its end.
OfferedIsProcessing ==
    \A j \in Chains : chains[j].phase = "offered" /\ up =>
        \/ transfers[chains[j].transfer].status = "processing"
        \/ \E k \in Chains : /\ chains[k].transfer = chains[j].transfer
                            /\ chains[k].phase = "ended"

\* While MCPServer runs a package gets one chain; it gets two when it came in
\* between the registration of the inotify watch and the end of the scan after
\* it.
ReportedOnce ==
    \A p \in Packages :
        Cardinality({j \in Chains : chains[j].ours /\ chains[j].about = p})
            <= IF p \in early THEN 2 ELSE 1

\* A package that a user dropped has one row, however often it is reported
\* and MCPServer restarted.
OneTransferPerPackage ==
    \A j, k \in Chains :
        chains[j].about = chains[k].about /\ chains[j].about \in Packages \ Submitted
            => chains[j].transfer = chains[k].transfer

\* A package in the watched directory is offered for a decision, or moves on,
\* whatever moment it comes at and whenever MCPServer is restarted.
EveryPackageIsOffered ==
    \A p \in Packages :
        (\E n \in Names : at[n] = p) ~>
            \/ \A n \in Names : at[n] # p
            \/ \E j \in Chains : chains[j].about = p /\ chains[j].phase = "offered"

\* The chain of a package that was submitted is for the transfer that was
\* created for it.
SubmittedIsFound ==
    \A j \in Chains : chains[j].about \in Submitted =>
        chains[j].transfer = own[chains[j].about]
=============================================================================
