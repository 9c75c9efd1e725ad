------------------------------ MODULE Channel ------------------------------
(***************************************************************************)
(* The channels between the master and its children (os/unix/ngx_channel.c *)
(* and its users in os/unix/ngx_process_cycle.c, os/unix/ngx_process.c).   *)
(* Each child has a socket pair: it reads at one end, the master and the   *)
(* other children hold descriptors of the other.  A child inherits those   *)
(* of its elder siblings by fork; the master passes it those of the        *)
(* younger ones in messages, and tells it to close those of the dead.  A   *)
(* full socket makes the master drop a message.                            *)
(*                                                                         *)
(* A channel is named by the process that reads it.  Every spawn succeeds  *)
(* here; Master has those that fail, and what the commands to quit and to  *)
(* terminate lead to.                                                      *)
(*                                                                         *)
(* A definition named Mutant_... is a wrong variant of the one after it:   *)
(* no specification uses it, a run shows that a property refuses it.       *)
(***************************************************************************)
EXTENDS Integers, Sequences, FiniteSets

CONSTANTS
  MaxProcesses,  \* NGX_MAX_PROCESSES, the size of ngx_processes
  MaxSpawns,     \* bound: children started
  Capacity       \* messages that a socket has room for

ASSUME SizeAssumption ==
  MaxProcesses \in Nat \ {0} /\ MaxSpawns \in Nat /\ Capacity \in Nat \ {0}

VARIABLES
  \* ngx_processes of the master
  pid, chan,  \* pid and channel[0] of each slot
  exited, last,
  \* ngx_reap_children
  mpc,        \* "sleep": outside; "reap", "told": at slot ri, before and
              \* after the others are told that the process is gone
  ri, ch,     \* ch.command and ch.fd
  \* the children
  child,      \* "none", "running", "zombie" or "gone"
  own,        \* ngx_process_slot of each child
  tab,        \* channel[0] of each slot in the ngx_processes of each child
  held,       \* how many descriptors of each channel each child has
  queue,      \* messages in each channel
  missed      \* history: <<p, s>> if p was not told the truth about slot s

master == <<pid, chan, exited, last>>
reaping == <<mpc, ri, ch>>
children == <<child, own, tab, held, queue, missed>>
vars == <<master, reaping, children>>

Slots == 0 .. MaxProcesses - 1
Pids == 1 .. MaxSpawns
None == 0      \* -1 in the code: no process, no channel
GivenUp == -1  \* the number of a descriptor that was closed

Open == "OPEN_CHANNEL"
Close == "CLOSE_CHANNEL"
Message == [command : {Open, Close}, slot : Slots, fd : Pids \cup {None}]

TypeOK ==
  /\ pid \in [Slots -> Pids \cup {None}] /\ chan \in [Slots -> Pids \cup {None}]
  /\ exited \in [Slots -> BOOLEAN] /\ last \in 0 .. MaxProcesses
  /\ mpc \in {"sleep", "reap", "told"} /\ ri \in 0 .. MaxProcesses
  /\ ch \in [command : {Open, Close}, fd : Pids \cup {None}]
  /\ child \in [Pids -> {"none", "running", "zombie", "gone"}]
  /\ own \in [Pids -> Slots]
  /\ tab \in [Pids -> [Slots -> Pids \cup {None, GivenUp}]]
  /\ held \in [Pids -> [Pids -> Nat]]
  /\ queue \in [Pids -> Seq(Message)]
  /\ missed \subseteq Pids \X Slots

Nothing == [s \in Slots |-> None]
NoFds == [q \in Pids |-> 0]

Init ==
  /\ pid = Nothing /\ chan = Nothing
  /\ exited = [s \in Slots |-> FALSE] /\ last = 0
  /\ mpc = "sleep" /\ ri = 0 /\ ch = [command |-> Close, fd |-> None]
  /\ child = [p \in Pids |-> "none"] /\ own = [p \in Pids |-> 0]
  /\ tab = [p \in Pids |-> Nothing] /\ held = [p \in Pids |-> NoFds]
  /\ queue = [p \in Pids |-> <<>>] /\ missed = {}

Used == {s \in Slots : s < last /\ pid[s] # None}
Running == {p \in Pids : child[p] = "running"}

-----------------------------------------------------------------------------
(* The master writes *)

(* ngx_write_channel to each of the processes `to': a full socket has no   *)
(* room for the message, and what a dead process would have read is lost.  *)
Full(p) == Len(queue[p]) >= Capacity

WriteChannel(to, m) ==
  queue' = [p \in Pids |-> IF p \in to /\ ~Full(p) THEN Append(queue[p], m) ELSE queue[p]]

(* Those that miss message m, or read it and are misled: a process is gone *)
(* and they are told to open a channel in its slot.                        *)
Misled(to, m, stale) == {p \in to : Full(p) \/ stale} \X {m.slot}

-----------------------------------------------------------------------------
(* ngx_spawn_process and ngx_pass_open_channel *)

Fresh(p) == child[p] = "none" /\ \A q \in Pids : q < p => child[q] # "none"

(* The child, after ngx_worker_process_init: it keeps what the master has  *)
(* of its siblings and closes the end of its own channel that is written   *)
(* to, but the number stays in the table.                                  *)
Fork(s, p) ==
  /\ child' = [child EXCEPT ![p] = "running"]
  /\ own' = [own EXCEPT ![p] = s]
  /\ tab' = [tab EXCEPT ![p] = [chan EXCEPT ![s] = GivenUp]]
  /\ held' = [held EXCEPT ![p] =
                [q \in Pids |-> Cardinality({t \in Slots \ {s} : chan[t] = q})]]

(* The new process is told of itself.                                      *)
Mutant_Siblings(s, p) ==
  {p} \cup {q \in Running : \E t \in Used \ {s} : chan[t] = q}

(* The processes in the table that are told of the new process p.          *)
Siblings(s, p) == {q \in Running : \E t \in Used \ {s} : chan[t] = q}

PassOpenChannel(s, p) ==
  LET m == [command |-> Open, slot |-> s, fd |-> p] IN
  /\ WriteChannel(Siblings(s, p), m)
  /\ missed' = missed \cup Misled(Siblings(s, p), m, FALSE)

SpawnInto(s, p) ==
  /\ Fresh(p) /\ Fork(s, p) /\ PassOpenChannel(s, p)
  /\ pid' = [pid EXCEPT ![s] = p] /\ chan' = [chan EXCEPT ![s] = p]
  /\ exited' = [exited EXCEPT ![s] = FALSE]

(* The first slot that is marked free, or else the one after the last.     *)
NewSlot(s) ==
  /\ s <= last /\ (s < last => pid[s] = None)
  /\ \A t \in Slots : t < s => pid[t] # None

Spawn(s, p) ==
  /\ mpc = "sleep" /\ NewSlot(s) /\ SpawnInto(s, p)
  /\ last' = IF s = last THEN last + 1 ELSE last
  /\ UNCHANGED reaping

-----------------------------------------------------------------------------
(* ngx_process_get_status, ngx_reap_children *)

Sigsuspend ==
  LET dead == {p \in Pids : child[p] = "zombie"} IN
  /\ mpc = "sleep" /\ dead # {}
  /\ exited' = [s \in Slots |-> exited[s] \/ (s \in Used /\ pid[s] \in dead)]
  /\ child' = [p \in Pids |-> IF p \in dead THEN "gone" ELSE child[p]]
  /\ mpc' = "reap" /\ ri' = 0 /\ ch' = [command |-> Close, fd |-> None]
  /\ UNCHANGED <<pid, chan, last, own, tab, held, queue, missed>>

ReapAt(s) == mpc = "reap" /\ s = ri /\ s < last

ReapSkip(s) ==
  /\ ReapAt(s) /\ (pid[s] = None \/ ~exited[s])
  /\ ri' = ri + 1
  /\ UNCHANGED <<master, mpc, ch, children>>

(* Only those that come after it in the table.                             *)
Mutant_Others(s) ==
  {q \in Running : \E t \in Used : t > s /\ ~exited[t] /\ chan[t] = q}

Others(s) == {q \in Running : \E t \in Used : ~exited[t] /\ chan[t] = q}

(* Its channel is closed, the others are told: with the command and the    *)
(* descriptor that ch happens to hold, which the respawn of another        *)
(* process in the same pass has overwritten.                               *)
ReapTell(s) ==
  LET m == [command |-> ch.command, slot |-> s, fd |-> ch.fd] IN
  /\ ReapAt(s) /\ pid[s] # None /\ exited[s]
  /\ chan' = [chan EXCEPT ![s] = None]
  /\ WriteChannel(Others(s), m)
  /\ missed' = missed \cup Misled(Others(s), m, ch.command = Open)
  /\ mpc' = "told"
  /\ UNCHANGED <<pid, exited, last, ri, ch, child, own, tab, held>>

ReapRespawn(s, p) ==
  /\ mpc = "told" /\ s = ri /\ SpawnInto(s, p)
  /\ ch' = [command |-> Open, fd |-> p]
  /\ mpc' = "reap" /\ ri' = ri + 1
  /\ UNCHANGED last

ReapRemove(s) ==
  /\ mpc = "told" /\ s = ri
  /\ IF s = last - 1
       THEN last' = last - 1 /\ UNCHANGED pid
       ELSE pid' = [pid EXCEPT ![s] = None] /\ UNCHANGED last
  /\ mpc' = "reap" /\ ri' = ri + 1
  /\ UNCHANGED <<chan, exited, ch, children>>

ReapDone ==
  /\ mpc = "reap" /\ ri >= last
  /\ mpc' = "sleep"
  /\ UNCHANGED <<master, ri, ch, children>>

-----------------------------------------------------------------------------
(* The children: ngx_channel_handler *)

OpenChannel(p, m) ==
  /\ tab' = [tab EXCEPT ![p][m.slot] = m.fd]
  /\ held' = [held EXCEPT ![p][m.fd] = @ + 1]

(* The entry is cleared, the descriptor stays open.                        *)
Mutant_CloseChannel(p, m) ==
  tab' = [tab EXCEPT ![p][m.slot] = None] /\ UNCHANGED held

(* close() of -1 fails, that of a number given up hits whatever descriptor *)
(* has it now.                                                             *)
CloseChannel(p, m) ==
  LET q == tab[p][m.slot] IN
  /\ tab' = [tab EXCEPT ![p][m.slot] = None]
  /\ held' = IF q \in Pids THEN [held EXCEPT ![p][q] = @ - 1] ELSE held

Read(p) ==
  LET m == Head(queue[p]) IN
  /\ p \in Running /\ queue[p] # <<>>
  /\ queue' = [queue EXCEPT ![p] = Tail(@)]
  /\ \/ m.command = Open /\ OpenChannel(p, m)
     \/ m.command = Close /\ CloseChannel(p, m)
  /\ UNCHANGED <<master, reaping, child, own, missed>>

(* Its descriptors are closed by the kernel.                               *)
Die(p) ==
  /\ p \in Running
  /\ child' = [child EXCEPT ![p] = "zombie"]
  /\ tab' = [tab EXCEPT ![p] = Nothing] /\ held' = [held EXCEPT ![p] = NoFds]
  /\ queue' = [queue EXCEPT ![p] = <<>>]
  /\ missed' = missed \ ({p} \X Slots)
  /\ UNCHANGED <<master, reaping, own>>

Next ==
  \/ Sigsuspend \/ ReapDone
  \/ \E s \in Slots : ReapSkip(s) \/ ReapTell(s) \/ ReapRemove(s)
  \/ \E s \in Slots, p \in Pids : Spawn(s, p) \/ ReapRespawn(s, p)
  \/ \E p \in Pids : Read(p) \/ Die(p)

Spec == Init /\ [][Next]_vars

-----------------------------------------------------------------------------
(* Properties *)

(* A child that has read its messages knows the same channels as the       *)
(* master, except in the slots that it was misled about: what one message  *)
(* spoils stays in the slot of that message.                               *)
TableAgrees ==
  \A p \in Running, s \in Slots :
    queue[p] = <<>> /\ s # own[p] /\ <<p, s>> \notin missed => tab[p][s] = chan[s]

Named(p, q) == Cardinality({s \in Slots : tab[p][s] = q})

(* A close never hits another descriptor than one of a channel, whatever   *)
(* messages were lost: each entry has a descriptor of its own; and no      *)
(* message is about the slot of its reader, though slots are reused: the   *)
(* number given up there may be that of a client's connection by now.      *)
CloseIsSafe ==
  \A p \in Running :
    /\ \A q \in Pids : Named(p, q) <= held[p][q]
    /\ \A i \in DOMAIN queue[p] : queue[p][i].slot # own[p]

(* A child that was not misled has no descriptor beyond those in its table *)
(* as channels come and go.                                                *)
NoLeak ==
  \A p \in Running :
    (\A s \in Slots : <<p, s>> \notin missed) => \A q \in Pids : held[p][q] = Named(p, q)

=============================================================================
