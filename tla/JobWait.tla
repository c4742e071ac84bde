------------------------------ MODULE JobWait ------------------------------
(***************************************************************************)
(* The wait of trashd-exec for the command and everything it leaves behind *)
(* (wait_for_children in crates/trashd-seccomp/src/main.rs).               *)
(*                                                                         *)
(* The orchestrator adopts orphaned descendants.  One loop reaps whoever   *)
(* exited, forwards the signals it was sent, and polls a signalfd and a    *)
(* pidfd per child; the broker's socket is polled with them.  Processes    *)
(* fork, exit and are reparented meanwhile, a tracer may keep a zombie     *)
(* from being reaped, and pidfds may run out.                              *)
(***************************************************************************)
EXTENDS Naturals, FiniteSets

CONSTANTS
    Pids,       \* the processes of the protected tree
    Command,    \* the one that was started
    Daemons,    \* those that leave the session of the terminal
    MaxFds,     \* how many pidfds can be open
    MaxSignals  \* bound: signals sent to the orchestrator

VARIABLES
    life,       \* unborn, live, held (exited, but its tracer has it), zombie, reaped
    parent,     \* Orchestrator or the living process that forked it
    inbox,      \* the signalfd: CHLD, and job signals by kind
    got,        \* got[p]: how often the terminal's INT reached p
    broker,     \* its socket: served, closed by its peer, or no longer polled
    pc, refresh, todo, reaped,
    targets,    \* children with a pidfd
    untracked,  \* children without one
    parked,     \* not polled until the next CHLD
    fired,      \* whose pidfd was readable
    pending,    \* signals to forward
    status,     \* the command's exit was seen
    sent,       \* bound: the signals sent so far, each once
    forwarded   \* history: <<signal, receiver>> of the last round of forwarding

kernel == <<life, parent, inbox, broker>>
known == <<targets, untracked, parked, fired>>
loop == <<pc, refresh, todo, reaped>>
vars == <<kernel, got, loop, known, pending, status, sent, forwarded>>

Orchestrator == "orchestrator"
\* INT: Ctrl-C, which the kernel sends to the whole foreground group; TERM: from
\* anywhere; OWN: the wrapper's own limit or timer.
JobSignals == {"INT", "TERM", "OWN"}

\* The command itself stays in the session of the terminal.
JobAssumption == Orchestrator \notin Pids /\ Daemons \subseteq Pids /\ Command \in Pids \ Daemons

TypeOK ==
    /\ life \in [Pids -> {"unborn", "live", "held", "zombie", "reaped"}]
    /\ parent \in [Pids -> Pids \cup {Orchestrator}]
    /\ inbox \subseteq JobSignals \cup {"CHLD"}
    /\ got \in [Pids -> 0..2]
    /\ broker \in {"served", "closed", "dropped"}
    /\ pc \in {"list", "reap", "conclude", "forward", "poll", "returned"}
    /\ refresh \in BOOLEAN /\ reaped \in BOOLEAN /\ status \in BOOLEAN
    /\ {todo, targets, untracked, parked, fired} \subseteq SUBSET Pids
    /\ pending \subseteq JobSignals
    /\ sent \subseteq JobSignals /\ forwarded \subseteq JobSignals \X Pids
    /\ Cardinality(targets) <= MaxFds /\ targets \cap untracked = {}
    /\ \A p \in targets \cup untracked : parent[p] = Orchestrator /\ life[p] # "unborn"

Init ==
    /\ life = [p \in Pids |-> IF p = Command THEN "live" ELSE "unborn"]
    /\ parent = [p \in Pids |-> Orchestrator]
    /\ inbox = {} /\ got = [p \in Pids |-> 0] /\ broker = "served"
    /\ pc = "list" /\ refresh = TRUE /\ todo = {} /\ reaped = FALSE
    /\ targets = {} /\ untracked = {} /\ parked = {} /\ fired = {}
    /\ pending = {} /\ status = FALSE /\ sent = {} /\ forwarded = {}

Ours == {p \in Pids : parent[p] = Orchestrator /\ life[p] \in {"live", "held", "zombie"}}
\* The descriptor of an exited process stays readable.
Readable(p) == life[p] \in {"held", "zombie"}

-----------------------------------------------------------------------------
(* The processes.                                                          *)

ForkChild(p, c) ==
    /\ life[p] = "live" /\ life[c] = "unborn"
    /\ life' = [life EXCEPT ![c] = "live"] /\ parent' = [parent EXCEPT ![c] = p]
    /\ UNCHANGED <<inbox, broker, got, loop, known, pending, status, sent, forwarded>>

\* The children of p, dead ones too, become the orchestrator's, and CHLD tells
\* it of each exit it can reap.
Exit(p) ==
    LET orphans == {c \in Pids : parent[c] = p /\ life[c] # "unborn"} IN
    /\ life[p] = "live"
    /\ \E end \in IF parent[p] = Orchestrator THEN {"zombie", "held"} ELSE {"zombie"} :
           /\ life' = [life EXCEPT ![p] = end]
           /\ inbox' = IF \/ parent[p] = Orchestrator /\ end = "zombie"
                          \/ \E c \in orphans : life[c] = "zombie"
                       THEN inbox \cup {"CHLD"} ELSE inbox
    /\ parent' = [c \in Pids |-> IF c \in orphans THEN Orchestrator ELSE parent[c]]
    /\ UNCHANGED <<broker, got, loop, known, pending, status, sent, forwarded>>

\* The tracer lets go of it.
Detach(p) ==
    /\ life[p] = "held"
    /\ life' = [life EXCEPT ![p] = "zombie"] /\ inbox' = inbox \cup {"CHLD"}
    /\ UNCHANGED <<parent, broker, got, loop, known, pending, status, sent, forwarded>>

\* A parent inside the tree waits for its child.
ReapedInside(p) ==
    /\ life[p] = "zombie" /\ parent[p] # Orchestrator
    /\ life' = [life EXCEPT ![p] = "reaped"]
    /\ UNCHANGED <<parent, inbox, broker, got, loop, known, pending, status, sent, forwarded>>

Send(sig) ==
    /\ Cardinality(sent) < MaxSignals /\ sig \notin sent /\ pc # "returned"
    /\ sent' = sent \cup {sig} /\ inbox' = inbox \cup {sig}
    /\ got' = IF sig # "INT" THEN got
              ELSE [p \in Pids |-> IF life[p] = "live" /\ p \notin Daemons
                                   THEN got[p] + 1 ELSE got[p]]
    /\ UNCHANGED <<life, parent, broker, loop, known, pending, status, forwarded>>

BrokerCloses ==
    /\ broker = "served" /\ broker' = "closed"
    /\ UNCHANGED <<life, parent, inbox, got, loop, known, pending, status, sent, forwarded>>

-----------------------------------------------------------------------------
(* The loop.                                                               *)

\* /proc lists the children of this moment; those known before are asked too.
ListChildren ==
    /\ pc = "list"
    /\ todo' = Ours \cup targets \cup untracked \cup (IF status THEN {} ELSE {Command})
    /\ reaped' = FALSE /\ pc' = "reap"
    /\ UNCHANGED <<kernel, got, refresh, known, pending, status, sent, forwarded>>

\* waitpid reaps a zombie; of a live child it is time to have a pidfd.
ReapOne(p) ==
    /\ pc = "reap" /\ p \in todo
    /\ todo' = todo \ {p}
    /\ \/ /\ life[p] = "zombie" /\ parent[p] = Orchestrator
          /\ life' = [life EXCEPT ![p] = "reaped"] /\ reaped' = TRUE
          /\ targets' = targets \ {p} /\ untracked' = untracked \ {p}
          /\ status' = (status \/ p = Command)
       \/ /\ life[p] \in {"live", "held"} /\ p \notin targets
          /\ IF Cardinality(targets) < MaxFds
             THEN targets' = targets \cup {p} /\ untracked' = untracked \ {p}
             ELSE untracked' = untracked \cup {p} /\ UNCHANGED targets
          /\ UNCHANGED <<life, reaped, status>>
       \/ /\ life[p] \in {"live", "held"} /\ p \in targets
          /\ UNCHANGED <<life, reaped, targets, untracked, status>>
    /\ UNCHANGED <<parent, inbox, broker, got, pc, refresh, parked, fired, pending, sent, forwarded>>

Park == (parked \cup fired) \cap targets

\* After a reap the list may be out of date: children were reparented.
Conclude ==
    /\ pc = "reap" /\ todo = {}
    /\ parked' = Park /\ fired' = {}
    /\ IF reaped THEN pc' = "list" /\ UNCHANGED refresh
       ELSE IF targets = {} /\ untracked = {} /\ status
       THEN pc' = "returned" /\ UNCHANGED refresh
       ELSE pc' = "forward" /\ refresh' = FALSE
    /\ UNCHANGED <<kernel, got, todo, reaped, targets, untracked, pending, status, sent, forwarded>>

\* The command while it is known, afterwards those still in its session.
Recipients ==
    IF Command \in targets \cup untracked THEN {Command}
    ELSE (targets \cup untracked) \ Daemons

Forward ==
    /\ pc = "forward"
    /\ forwarded' = pending \X Recipients
    /\ got' = [p \in Pids |-> IF "INT" \in pending /\ p \in Recipients /\ life[p] = "live"
                              THEN got[p] + 1 ELSE got[p]]
    /\ pending' = {} /\ pc' = "poll"
    /\ UNCHANGED <<kernel, refresh, todo, reaped, known, status, sent>>

\* The wrapper's own limits are not the command's, and what the terminal sent
\* the whole group has reached it.
Forwardable ==
    {s \in inbox \ {"CHLD", "OWN"} : s = "INT" => status}

\* A closed socket is not polled any more.
ServeBroker == IF broker = "closed" THEN "dropped" ELSE broker

Ready == {p \in targets \ parked : Readable(p)}

\* Mutant of Poll: CHLD is read but tells nothing.
PollIgnoringChld ==
    /\ pc = "poll"
    /\ inbox # {} \/ Ready # {} \/ broker = "closed"
    /\ pending' = Forwardable /\ inbox' = {}
    /\ fired' = Ready
    /\ broker' = ServeBroker
    /\ refresh' = (Ready # {})
    /\ pc' = IF refresh' THEN "list" ELSE "forward"
    /\ UNCHANGED <<life, parent, got, todo, reaped, targets, untracked, parked, status, sent, forwarded>>

Poll ==
    /\ pc = "poll"
    /\ inbox # {} \/ Ready # {} \/ broker = "closed"
    /\ pending' = Forwardable /\ inbox' = {}
    /\ parked' = IF "CHLD" \in inbox THEN {} ELSE parked
    /\ fired' = Ready
    /\ broker' = ServeBroker
    /\ refresh' = (inbox # {} \/ Ready # {})
    /\ pc' = IF refresh' THEN "list" ELSE "forward"
    /\ UNCHANGED <<life, parent, got, todo, reaped, targets, untracked, status, sent, forwarded>>

Wait == ListChildren \/ (\E p \in Pids : ReapOne(p)) \/ Conclude \/ Forward \/ Poll

Processes ==
    \/ \E p, c \in Pids : ForkChild(p, c)
    \/ \E p \in Pids : Exit(p) \/ Detach(p) \/ ReapedInside(p)

Next ==
    \/ Wait \/ Processes \/ BrokerCloses
    \/ \E sig \in JobSignals : Send(sig)

Spec == Init /\ [][Next]_vars

\* Every process ends some day and the wrapper is scheduled; a tracer may keep
\* its zombie for ever.
FairSpec == Spec /\ WF_vars(Wait) /\ \A p \in Pids : WF_vars(Exit(p))

-----------------------------------------------------------------------------
(* Properties.                                                             *)

\* The session ends only when the command and every descendant it left was
\* reaped: with a live one the supervisor must stay.
AllReaped == pc = "returned" => \A p \in Pids : life[p] \in {"unborn", "reaped"}

\* A signal that the terminal delivers itself is not delivered twice.
IntOnce == \A p \in Pids : status \/ got[p] <= 1

\* No signal goes to a daemon of the tree because the command has ended.
DaemonsSpared == \A s \in JobSignals, p \in Daemons : <<s, p>> \notin forwarded

\* The session does end, with fewer descriptors than descendants and with
\* exits that come in any order with their signals, unless a tracer never lets go.
Returned == pc = "returned"
Traced == \E p \in Pids : life[p] = "held"
SessionEnds == <>Returned \/ <>[]Traced

\* The loop sleeps when nothing happens: an exited child that cannot be reaped
\* and a broker that is gone do not keep it spinning (the events are bounded).
Quiet == <>[][pc = "poll" => pc' = "poll"]_vars
=============================================================================
