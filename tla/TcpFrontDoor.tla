---------------------------- MODULE TcpFrontDoor ----------------------------
(***************************************************************************)
(* The TCP front door of the server (slt-server/src/tcp): the accept loop, *)
(* the admission table with its cap and its list of connections that have  *)
(* sent nothing yet, and one detached classification task per admitted     *)
(* connection.                                                             *)
(*                                                                         *)
(* The accept loop and the tasks run on several threads.  A step ends at   *)
(* each access to something shared: the mutex of the admission table, the  *)
(* `released` flag of a permit, its cancellation token, the socket and the *)
(* reference count of the stream.                                          *)
(***************************************************************************)
EXTENDS Naturals, Sequences, FiniteSets

CONSTANTS
    Conn,        \* the connections that arrive
    NoConn,      \* not a connection
    Cap,         \* tcp_connection_cap
    ScanLimit,   \* EMPTY_EVICTION_SCAN_LIMIT
    ScanPasses,  \* EMPTY_EVICTION_SCAN_PASSES
    Arrival,     \* what may arrive first on a connection
    Completion   \* what the beginning of a ClientHello may become

\* ServerConfig::validate refuses a cap of zero.
ASSUME FrontDoorAssumption ==
    /\ IsFiniteSet(Conn) /\ NoConn \notin Conn
    /\ Cap \in Nat \ {0}
    /\ ScanLimit \in Nat \ {0} /\ ScanPasses \in Nat \ {0}
    /\ Arrival \subseteq {"eof", "reset", "Incomplete", "Claim", "Pass", "Drop"}
    /\ Completion \subseteq {"reset", "Claim", "Pass", "Drop"}

VARIABLES
    wire,           \* what a peek of the socket of a connection shows
    active,         \* TcpAdmissionState.active
    no_data,        \* TcpAdmissionState.no_data: the links of the listed permits
    no_data_head,
    no_data_tail,
    released,       \* connections whose permit has its flag set
    cancelled,      \* connections whose permit has its token cancelled
    loop,           \* where the accept loop is
    cur,            \* the connection it has accepted last
    candidates,     \* the snapshot it is going through
    scans,          \* how many passes it has begun
    removed_stale,  \* this pass removed a stale entry
    evicted,        \* whose eviction makes room for cur: evict_cancel
    probing,        \* the stream that NoDataAdmission::is_empty holds
    task,           \* where a connection is
    outcome,        \* what became of it
    data_seen,      \* connections whose classifier has seen data
    peeked,         \* what the classifier has peeked
    expired         \* connections past their classification deadline

listVars == <<no_data, no_data_head, no_data_tail>>
admissionVars == <<active, listVars, released, cancelled>>
loopVars == <<loop, cur, candidates, scans, removed_stale, evicted, probing>>
taskVars == <<task, outcome, data_seen, peeked, expired>>
vars == <<wire, admissionVars, loopVars, taskVars>>

\* "none": a peek would block; "eof": it returns 0; "reset": it fails; else the
\* verdict that classify_tcp_client_hello gives for what is buffered.
Content == {"none", "eof", "reset", "Incomplete", "Claim", "Pass", "Drop"}

LoopStage ==
    {"Accepting", "Admitting", "Scanning", "Probing", "Looking", "Evicting", "Unlisting",
     "Retrying", "Final", "Cancelling", "OverCap", "Registering", "Listing", "Marking",
     "Stopped"}

\* Listing to Sleeping are the loop of classify_stream_inner, HandingOver is
\* Arc::into_inner, Releasing and Unlocking are the drop of the permit.
TaskStage ==
    {"Backlog", "Accepted", "Admitted", "Top", "Listing", "Marking", "Peeking", "Seeing",
     "Sleeping", "HandingOver", "Proxying", "Releasing", "Unlocking", "Closed"}

Outcome ==
    {"none", "claimed", "passed", "dropped", "timed_out", "evicted", "claim_lost", "pass_lost"}

OrNone(S) == S \cup {NoConn}

TypeOK ==
    /\ wire \in [Conn -> Content]
    /\ active \in 0..Cardinality(Conn)
    /\ DOMAIN no_data \subseteq Conn
    /\ \A c \in DOMAIN no_data : no_data[c] \in [prev : OrNone(Conn), next : OrNone(Conn)]
    /\ no_data_head \in OrNone(Conn) /\ no_data_tail \in OrNone(Conn)
    /\ released \subseteq Conn /\ cancelled \subseteq Conn
    /\ loop \in LoopStage
    /\ cur \in OrNone(Conn)
    /\ candidates \in Seq(Conn) /\ Len(candidates) <= ScanLimit
    /\ scans \in 0..ScanPasses
    /\ removed_stale \in BOOLEAN
    /\ evicted \in OrNone(Conn) /\ probing \in OrNone(Conn)
    /\ task \in [Conn -> TaskStage]
    /\ outcome \in [Conn -> Outcome]
    /\ data_seen \subseteq Conn
    /\ peeked \in [Conn -> Content]
    /\ expired \subseteq Conn

Init ==
    /\ wire = [c \in Conn |-> "none"]
    /\ active = 0
    /\ no_data = [c \in {} |-> [prev |-> NoConn, next |-> NoConn]]
    /\ no_data_head = NoConn
    /\ no_data_tail = NoConn
    /\ released = {}
    /\ cancelled = {}
    /\ loop = "Accepting"
    /\ cur = NoConn
    /\ candidates = <<>>
    /\ scans = 0
    /\ removed_stale = FALSE
    /\ evicted = NoConn
    /\ probing = NoConn
    /\ task = [c \in Conn |-> "Backlog"]
    /\ outcome = [c \in Conn |-> "none"]
    /\ data_seen = {}
    /\ peeked = [c \in Conn |-> "none"]
    /\ expired = {}

-----------------------------------------------------------------------------
(* The list of permits without data: a HashMap with a link in each entry.  *)

Listed(c) == c \in DOMAIN no_data

insert_no_data_locked(c) ==
    /\ no_data' = [d \in DOMAIN no_data \cup {c} |->
                      IF d = c THEN [prev |-> no_data_tail, next |-> NoConn]
                      ELSE IF d = no_data_tail THEN [no_data[d] EXCEPT !.next = c]
                      ELSE no_data[d]]
    /\ no_data_head' = IF no_data_tail = NoConn THEN c ELSE no_data_head
    /\ no_data_tail' = c

\* Removing an entry that is not listed changes nothing.
remove_no_data_locked(c) ==
    IF ~Listed(c) THEN UNCHANGED listVars
    ELSE LET e == no_data[c]
         IN  /\ no_data' = [d \in DOMAIN no_data \ {c} |->
                               IF d = e.prev THEN [no_data[d] EXCEPT !.next = e.next]
                               ELSE IF d = e.next THEN [no_data[d] EXCEPT !.prev = e.prev]
                               ELSE no_data[d]]
             /\ no_data_head' = IF e.prev = NoConn THEN e.next ELSE no_data_head
             /\ no_data_tail' = IF e.next = NoConn THEN e.prev ELSE no_data_tail

\* The walk of eviction_candidates: from the head along the links, up to the limit or
\* the end of the list.
Walks(limit) ==
    {w \in UNION {[1..n -> DOMAIN no_data] : n \in 0..limit} :
        LET n == Len(w)
            Behind(i) == IF i = 0 THEN no_data_head ELSE no_data[w[i]].next
        IN  /\ \A i \in 1..n : w[i] = Behind(i - 1)
            /\ n = limit \/ ~Listed(Behind(n))}

eviction_candidates == IF active < Cap THEN {<<>>} ELSE Walks(ScanLimit)

\* stream_has_no_buffered_data: end of file counts as no data, an error does not.
NoBufferedData(c) == wire[c] \in {"none", "eof"}

-----------------------------------------------------------------------------
(* The peer.                                                               *)

Classifying(c) ==
    task[c] \in {"Top", "Listing", "Marking", "Peeking", "Seeing", "Sleeping"}

\* A prefix of a ClientHello becomes a complete one, or something else.
Arrives(c) ==
    /\ task[c] \in {"Backlog", "Accepted", "Admitted"} \/ Classifying(c)
    /\ \/ wire[c] = "none" /\ \E d \in Arrival : wire' = [wire EXCEPT ![c] = d]
       \/ wire[c] = "Incomplete" /\ \E d \in Completion : wire' = [wire EXCEPT ![c] = d]
    /\ UNCHANGED <<admissionVars, loopVars, taskVars>>

-----------------------------------------------------------------------------
(* The accept loop.                                                        *)

LoopUnchanged == UNCHANGED <<cur, candidates, scans, removed_stale, evicted, probing>>

\* The end of an iteration: its variables go out of scope.
AcceptNext ==
    /\ loop' = "Accepting"
    /\ cur' = NoConn
    /\ candidates' = <<>>
    /\ scans' = 0
    /\ removed_stale' = FALSE
    /\ evicted' = NoConn
    /\ UNCHANGED probing

Accept(c) ==
    /\ loop = "Accepting"
    /\ task[c] = "Backlog"
    /\ loop' = "Admitting"
    /\ cur' = c
    /\ task' = [task EXCEPT ![c] = "Accepted"]
    /\ UNCHANGED <<wire, admissionVars, candidates, scans, removed_stale, evicted, probing,
                   outcome, data_seen, peeked, expired>>

\* The loop returns when the token is cancelled or accept() fails; the tasks go on.
StopAccepting ==
    /\ loop = "Accepting"
    /\ loop' = "Stopped"
    /\ UNCHANGED <<wire, admissionVars, taskVars>> /\ LoopUnchanged

\* A permit if there is room: the loop goes on at yes or at no.
admit_if_under_cap(yes, no) ==
    \/ /\ active < Cap
       /\ active' = active + 1
       /\ task' = [task EXCEPT ![cur] = "Admitted"]
       /\ loop' = yes
    \/ /\ active >= Cap
       /\ loop' = no
       /\ UNCHANGED <<active, task>>

AdmitUnchanged ==
    UNCHANGED <<wire, listVars, released, cancelled, cur, candidates,
                removed_stale, evicted, probing, outcome, data_seen, peeked, expired>>

\* admit_or_evict_empty: the first attempt.
Admit ==
    /\ loop = "Admitting"
    /\ admit_if_under_cap("Registering", "Scanning")
    /\ AdmitUnchanged /\ UNCHANGED scans

\* A pass over a snapshot of the list.
Scan ==
    /\ loop = "Scanning"
    /\ candidates' \in eviction_candidates
    /\ scans' = scans + 1
    /\ removed_stale' = FALSE
    /\ loop' = "Probing"
    /\ UNCHANGED <<wire, admissionVars, cur, evicted, probing, taskVars>>

\* The task, or nobody, owns the stream of a connection.
StreamAlive(c) ==
    task[c] \in {"Top", "Listing", "Marking", "Peeking", "Seeing", "Sleeping", "HandingOver"}

\* is_empty: the weak reference is upgraded ...
Upgrade ==
    /\ loop = "Probing"
    /\ candidates # <<>>
    /\ LET c == Head(candidates)
       IN  IF StreamAlive(c) THEN probing' = c /\ loop' = "Looking"
                             ELSE loop' = "Unlisting" /\ UNCHANGED probing
    /\ UNCHANGED <<wire, admissionVars, cur, candidates, scans, removed_stale, evicted, taskVars>>

\* ... and dropped after a peek.
Look ==
    /\ loop = "Looking"
    /\ loop' = IF NoBufferedData(probing) THEN "Evicting" ELSE "Unlisting"
    /\ probing' = NoConn
    /\ UNCHANGED <<wire, admissionVars, cur, candidates, scans, removed_stale, evicted, taskVars>>

\* Mutant: the flag of the permit is not looked at.
try_evict_released(c) ==
    IF active < Cap \/ ~Listed(c) THEN UNCHANGED <<active, listVars, released, evicted>>
    ELSE /\ remove_no_data_locked(c)
         /\ released' = released \cup {c}
         /\ active' = active - 1
         /\ evicted' = c

\* Under the lock: only at the cap, only a listed permit, only one whose flag
\* nobody has set.
try_evict_empty(c) ==
    IF active < Cap \/ ~Listed(c) THEN UNCHANGED <<active, listVars, released, evicted>>
    ELSE /\ remove_no_data_locked(c)
         /\ IF c \in released THEN UNCHANGED <<active, released, evicted>>
            ELSE /\ released' = released \cup {c}
                 /\ active' = active - 1
                 /\ evicted' = c

Evict ==
    /\ loop = "Evicting"
    /\ try_evict_empty(Head(candidates))
    /\ candidates' = Tail(candidates)
    /\ loop' = IF evicted' = NoConn THEN "Probing" ELSE "Final"
    /\ UNCHANGED <<wire, cancelled, cur, scans, removed_stale, probing, taskVars>>

remove_stale_no_data ==
    /\ loop = "Unlisting"
    /\ remove_no_data_locked(Head(candidates))
    /\ candidates' = Tail(candidates)
    /\ removed_stale' = TRUE
    /\ loop' = "Probing"
    /\ UNCHANGED <<wire, active, released, cancelled, cur, scans, evicted, probing, taskVars>>

\* The end of a pass that evicted nobody.
PassEnds ==
    /\ loop = "Probing"
    /\ candidates = <<>>
    /\ loop' = IF removed_stale THEN "Retrying" ELSE "Final"
    /\ UNCHANGED <<wire, admissionVars, taskVars>> /\ LoopUnchanged

AdmitAgain ==
    /\ loop = "Retrying"
    /\ admit_if_under_cap("Registering", IF scans < ScanPasses THEN "Scanning" ELSE "Final")
    /\ AdmitUnchanged /\ UNCHANGED scans

AdmitFinally ==
    /\ loop = "Final"
    /\ admit_if_under_cap("Cancelling", "Cancelling")
    /\ AdmitUnchanged /\ UNCHANGED scans

\* The token of the evicted permit is cancelled last.
CancelEvicted ==
    /\ loop = "Cancelling"
    /\ cancelled' = IF evicted = NoConn THEN cancelled ELSE cancelled \cup {evicted}
    /\ loop' = IF task[cur] = "Admitted" THEN "Registering" ELSE "OverCap"
    /\ UNCHANGED <<wire, active, listVars, released, taskVars>>
    /\ LoopUnchanged

\* handle_over_cap_stream: only a complete claim is served, outside the cap.
handle_over_cap_stream ==
    /\ loop = "OverCap"
    /\ AcceptNext
    /\ task' = [task EXCEPT ![cur] = "Closed"]
    /\ outcome' = [outcome EXCEPT ![cur] = IF wire[cur] = "Claim" THEN "claimed" ELSE "dropped"]
    /\ UNCHANGED <<wire, admissionVars, data_seen, peeked, expired>>

\* mark_no_data_if_empty of the new permit: the peek, then the lock.
PeekBeforeSpawn ==
    /\ loop = "Registering"
    /\ loop' = IF NoBufferedData(cur) THEN "Listing" ELSE "Marking"
    /\ UNCHANGED <<wire, admissionVars, taskVars>> /\ LoopUnchanged

\* The task is spawned, or a permit that was released meanwhile is dropped.
Spawn ==
    /\ loop \in {"Listing", "Marking"}
    /\ IF cur \in released
       THEN /\ UNCHANGED listVars
            /\ outcome' = [outcome EXCEPT ![cur] = "evicted"]
            /\ task' = [task EXCEPT ![cur] = "Releasing"]
       ELSE /\ IF loop = "Marking" THEN remove_no_data_locked(cur) ELSE insert_no_data_locked(cur)
            /\ task' = [task EXCEPT ![cur] = "Top"]
            /\ UNCHANGED outcome
    /\ AcceptNext
    /\ UNCHANGED <<wire, active, released, cancelled, data_seen, peeked, expired>>

LoopStep ==
    \/ Admit \/ Scan \/ Upgrade \/ Look \/ Evict \/ remove_stale_no_data \/ PassEnds
    \/ AdmitAgain \/ AdmitFinally \/ CancelEvicted \/ handle_over_cap_stream
    \/ PeekBeforeSpawn \/ Spawn

-----------------------------------------------------------------------------
(* The classification task of connection c.                                *)

Go(c, stage) ==
    /\ task' = [task EXCEPT ![c] = stage]
    /\ UNCHANGED <<outcome, expired>>

\* The classification is over and its variables are gone.
Leave(c, stage, how) ==
    /\ task' = [task EXCEPT ![c] = stage]
    /\ outcome' = [outcome EXCEPT ![c] = how]
    /\ expired' = expired \ {c}
    /\ data_seen' = data_seen \ {c}
    /\ peeked' = [peeked EXCEPT ![c] = "none"]

Continue(c, stage) == Go(c, stage) /\ UNCHANGED <<data_seen, peeked>>

\* Nothing is left to do but to drop the permit.
Finish(c, how) == Leave(c, "Releasing", how)

\* The classification deadline passes: noticed by a task that waits, or when it
\* has waited.
Expire(c) ==
    /\ task[c] \in {"Peeking", "Sleeping"}
    /\ c \notin expired
    /\ expired' = expired \cup {c}
    /\ UNCHANGED <<wire, admissionVars, loopVars, task, outcome, data_seen, peeked>>

\* The top of the loop, up to the peek in mark_no_data_if_empty.
Loop(c) ==
    /\ task[c] = "Top"
    /\ IF c \in released THEN Finish(c, "evicted")
       ELSE IF c \in expired THEN Finish(c, "timed_out")
       ELSE Continue(c, IF c \in data_seen THEN "Peeking"
                        ELSE IF NoBufferedData(c) THEN "Listing" ELSE "Marking")
    /\ UNCHANGED <<wire, admissionVars, loopVars>>

mark_no_data_if_empty(c) ==
    /\ task[c] = "Listing"
    /\ IF c \in released THEN Finish(c, "evicted") ELSE Continue(c, "Peeking")
    /\ IF c \in released \/ Listed(c) THEN UNCHANGED listVars ELSE insert_no_data_locked(c)
    /\ UNCHANGED <<wire, active, released, cancelled, loopVars>>

\* Data is buffered before the peek: the permit leaves the list.
MarkBeforePeek(c) ==
    /\ task[c] = "Marking"
    /\ IF c \in released
       THEN Finish(c, "evicted") /\ UNCHANGED listVars
       ELSE Continue(c, "Peeking") /\ remove_no_data_locked(c)
    /\ UNCHANGED <<wire, active, released, cancelled, loopVars>>

\* peek_with_deadline: the socket, the token and the deadline race.
Peek(c) ==
    /\ task[c] = "Peeking"
    /\ \/ /\ wire[c] # "none"
          /\ IF wire[c] = "reset" THEN Finish(c, "dropped")
             ELSE IF c \in released THEN Finish(c, "evicted")
             ELSE IF wire[c] = "eof" THEN Finish(c, "dropped")
             ELSE /\ Go(c, "Seeing")
                  /\ peeked' = [peeked EXCEPT ![c] = wire[c]]
                  /\ UNCHANGED data_seen
       \/ c \in cancelled /\ Finish(c, "evicted")
       \/ c \in expired /\ wire[c] = "none" /\ Finish(c, "timed_out")
    /\ UNCHANGED <<wire, admissionVars, loopVars>>

\* The verdict on what was peeked.
Judge(c) ==
    IF peeked[c] = "Drop" THEN Finish(c, "dropped")
    ELSE /\ Go(c, IF peeked[c] = "Incomplete" THEN "Sleeping" ELSE "HandingOver")
         /\ data_seen' = data_seen \cup {c}
         /\ UNCHANGED peeked

\* Mutant: the result of mark_data_seen is ignored.
mark_data_seen_ignored(c) ==
    /\ task[c] = "Seeing"
    /\ IF c \in data_seen THEN UNCHANGED listVars ELSE remove_no_data_locked(c)
    /\ Judge(c)
    /\ UNCHANGED <<wire, active, released, cancelled, loopVars>>

\* The first data: an evicted connection ends here, any other is judged.
mark_data_seen(c) ==
    /\ task[c] = "Seeing"
    /\ IF c \in data_seen THEN Judge(c) /\ UNCHANGED listVars
       ELSE IF c \in released THEN Finish(c, "evicted") /\ UNCHANGED listVars
       ELSE Judge(c) /\ remove_no_data_locked(c)
    /\ UNCHANGED <<wire, active, released, cancelled, loopVars>>

\* The retry delay, cut short by the deadline.
Sleep(c) ==
    /\ task[c] = "Sleeping"
    /\ IF c \in cancelled THEN Finish(c, "evicted") ELSE Continue(c, "Top")
    /\ UNCHANGED <<wire, admissionVars, loopVars>>

\* Arc::into_inner: nobody else may hold the stream at this moment.
handle_claimed_stream(c) ==
    /\ task[c] = "HandingOver"
    /\ peeked[c] = "Claim"
    /\ Finish(c, IF probing = c THEN "claim_lost" ELSE "claimed")
    /\ UNCHANGED <<wire, admissionVars, loopVars>>

handle_pass_stream(c) ==
    /\ task[c] = "HandingOver"
    /\ peeked[c] = "Pass"
    /\ IF probing = c THEN Finish(c, "pass_lost") ELSE Leave(c, "Proxying", "passed")
    /\ UNCHANGED <<wire, admissionVars, loopVars>>

\* Both copies end, one fails, or the upstream cannot be reached.
proxy_to_upstream(c) ==
    /\ task[c] = "Proxying"
    /\ Continue(c, "Releasing")
    /\ UNCHANGED <<wire, admissionVars, loopVars>>

\* The drop of a permit: the flag, then the lock.  A claimed connection goes to
\* the claim handler after it.
DropPermit(c) ==
    /\ task[c] = "Releasing"
    /\ Continue(c, IF c \in released THEN "Closed" ELSE "Unlocking")
    /\ released' = released \cup {c}
    /\ UNCHANGED <<wire, active, listVars, cancelled, loopVars>>

\* Mutant: an entry left in the list.
ReturnSlotOnly(c) ==
    /\ task[c] = "Unlocking"
    /\ active' = active - 1
    /\ Continue(c, "Closed")
    /\ UNCHANGED <<wire, listVars, released, cancelled, loopVars>>

ReturnSlot(c) ==
    /\ task[c] = "Unlocking"
    /\ active' = active - 1
    /\ remove_no_data_locked(c)
    /\ Continue(c, "Closed")
    /\ UNCHANGED <<wire, released, cancelled, loopVars>>

TaskStep(c) ==
    \/ Loop(c) \/ mark_no_data_if_empty(c) \/ MarkBeforePeek(c) \/ Peek(c) \/ mark_data_seen(c)
    \/ Sleep(c) \/ handle_claimed_stream(c) \/ handle_pass_stream(c)
    \/ DropPermit(c) \/ ReturnSlot(c)

-----------------------------------------------------------------------------
Next ==
    \/ \E c \in Conn : Accept(c)
    \/ StopAccepting
    \/ LoopStep
    \/ \E c \in Conn : Arrives(c) \/ Expire(c) \/ TaskStep(c) \/ proxy_to_upstream(c)

Spec == Init /\ [][Next]_vars

-----------------------------------------------------------------------------
(* Properties.                                                             *)

\* The connections that a slot is counted for.
Holders ==
    {c \in Conn : \/ task[c] = "Unlocking"
                  \/ task[c] \notin {"Backlog", "Accepted", "Closed"} /\ c \notin released}

\* Every slot is returned exactly once, whoever releases the permit, and never more
\* than tcp_connection_cap connections are classified or proxied at a time
\* (try_evict_empty against Drop for TcpAdmissionPermit).
SlotsAreCounted ==
    /\ active = Cardinality(Holders)
    /\ active <= Cap

\* The table with its flags, its list and its detached tasks implements the
\* admission that BoundedAdmission states: nobody is evicted before the cap is
\* reached or once it is served, and a connection whose slot was given away is
\* neither handed to the claim handler nor proxied, whatever it sends while it is
\* being evicted (try_evict_empty, mark_data_seen).  That data, once seen, takes a
\* connection off the list of candidates is part of TableIsSound.
Admission ==
    INSTANCE BoundedAdmission WITH
        holding <- Holders,
        evictees <- (cancelled \cup {evicted}) \ {NoConn},
        served <- {c \in Conn : outcome[c] \in {"claimed", "passed"}}

ImplementsAdmission == Admission!Spec

\* The links, the head and the tail are those of a list without repetitions.
Linked(list, links, head, tail) ==
    LET n == Len(list)
        At(i) == IF i \in 1..n THEN list[i] ELSE NoConn
    IN  /\ DOMAIN links = {list[i] : i \in 1..n}
        /\ \A i, j \in 1..n : list[i] = list[j] => i = j
        /\ \A i \in 1..n : links[list[i]] = [prev |-> At(i - 1), next |-> At(i + 1)]
        /\ head = At(1) /\ tail = At(n)

\* The links of the list of empty connections stay those of a list: following them
\* from the head meets every entry once and ends at the tail, backwards likewise,
\* although entries leave from the middle and by three different hands.
ListIsSound ==
    \E list \in [1..Cardinality(DOMAIN no_data) -> DOMAIN no_data] :
        Linked(list, no_data, no_data_head, no_data_tail)

\* The list holds nothing but permits that can still be evicted: when the last hand
\* is off, a connection that is decided or closed is not in it.
ListedIsUndecided ==
    \A c \in DOMAIN no_data : task[c] # "Closed" /\ c \notin data_seen

\* Nobody is evicted in vain: the accepted connection gets the slot.
EvictionMakesRoom ==
    loop \in {"OverCap", "Registering"} /\ evicted # NoConn => task[cur] = "Admitted"

\* The admission table, its list and its evictions are sound in every state that the
\* accept loop, the classifiers and the drops of permits reach together.
TableIsSound == TypeOK /\ ListIsSound /\ ListedIsUndecided /\ EvictionMakesRoom
=============================================================================
