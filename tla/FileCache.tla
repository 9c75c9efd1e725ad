----------------------------- MODULE FileCache -----------------------------
(***************************************************************************)
(* The cache of upstream answers (http/ngx_http_file_cache.c): an index in *)
(* shared memory of the files on disk, used by the requests of all workers *)
(* (http/ngx_http_upstream.c), by the cache manager, which removes what    *)
(* nobody asked for in a while and what is too much, and by the cache      *)
(* loader, which fills the index after a start.                            *)
(*                                                                         *)
(* Every section under the mutex of the zone is one action.  What lies     *)
(* between two sections of a process (opening and reading a file, a fetch  *)
(* from the upstream, the rename of a finished file, the unlink in the     *)
(* middle of ngx_http_file_cache_delete) is where others run.  An entry    *)
(* stays alive in these gaps by its count.                                 *)
(*                                                                         *)
(* Times and the disk are left to chance: a file or a remembered error may *)
(* turn out to be expired whenever it is looked at, a file to be there or  *)
(* not, the cache to be too large.                                         *)
(*                                                                         *)
(* A definition named Mutant_... is a wrong variant of the one after it:   *)
(* no specification uses it, a run shows that a property refuses it.       *)
(***************************************************************************)
EXTENDS Integers, Sequences, FiniteSets

CONSTANTS
  Keys,      \* cache keys
  Nodes,     \* entries the slab pool of the zone has room for
  Requests,  \* requests, each in a worker of its own
  Managers,  \* cache managers: two for a while after a reload
  None,
  MinUses,   \* proxy_cache_min_uses of the location of each request
  MaxUses,   \* bound: uses of an entry are counted up to the largest of these,
             \* where the ten bits of the code begin again at 0
  Tries,     \* entries ngx_http_file_cache_forced_expire looks at, 20
  MaxKills,  \* bound: workers that exit abnormally
  KillInDelete  \* they may do so between the two halves of a deletion

ASSUME ProcessAssumption ==
  /\ IsFiniteSet(Requests) /\ IsFiniteSet(Managers) /\ Requests \cap Managers = {}
  /\ None \notin Nodes \cup Keys
ASSUME NumberAssumption ==
  /\ MaxUses \in Nat \ {0} /\ MinUses \in [Requests -> 1 .. MaxUses]
  /\ Tries \in Nat \ {0}
ASSUME KillAssumption == MaxKills \in Nat /\ KillInDelete \in BOOLEAN

VARIABLES
  node,      \* the entries, see Entry
  tree,      \* entries in cache->sh->rbtree
  queue,     \* cache->sh->queue, the most recently used first
  cold,      \* cache->sh->cold
  c,         \* r->cache of each request and where its handler is
  del,       \* the entry whose file each process is unlinking
  leaked,    \* history: references that died with a worker
  kills

index == <<node, tree, queue>>
vars == <<index, cold, c, del, leaked, kills>>

Processes == Requests \cup Managers

Entry == [key : Keys \cup {None}, count : Nat, uses : 0 .. MaxUses,
          exists : BOOLEAN, error : BOOLEAN,
          updating : BOOLEAN, deleting : BOOLEAN,
          old : BOOLEAN]    \* expire has passed

Blank == [key |-> None, count |-> 0, uses |-> 0, exists |-> FALSE,
          error |-> FALSE, updating |-> FALSE, deleting |-> FALSE,
          old |-> FALSE]

(* full, retry: no room for a new entry, then once more; looked, open,     *)
(* read, check: the stages of ngx_http_file_cache_open; serve: the answer  *)
(* is the file or the remembered error; fetch, pass: the upstream is asked *)
(* for an answer to be cached or not; update: it is being stored.          *)
Cache == [pc : {"idle", "full", "retry", "looked", "open", "read", "check",
                "serve", "fetch", "pass", "update"},
          key : Keys \cup {None}, node : Nodes \cup {None},
          declined : BOOLEAN,  \* nothing is known of the key yet
          error : BOOLEAN,
          updating : BOOLEAN]  \* it has set node->updating

Idle == [pc |-> "idle", key |-> None, node |-> None, declined |-> FALSE,
         error |-> FALSE, updating |-> FALSE]

TypeOK ==
  /\ node \in [Nodes -> Entry] /\ tree \subseteq Nodes /\ queue \in Seq(Nodes)
  /\ cold \in BOOLEAN
  /\ c \in [Requests -> Cache] /\ del \in [Processes -> Nodes \cup {None}]
  /\ leaked \in [Nodes -> Nat] /\ kills \in 0 .. MaxKills

(* A start; an earlier nginx may have left files.                          *)
Init ==
  /\ node = [n \in Nodes |-> Blank] /\ tree = {} /\ queue = <<>>
  /\ cold = TRUE
  /\ c = [r \in Requests |-> Idle] /\ del = [p \in Processes |-> None]
  /\ leaked = [n \in Nodes |-> 0] /\ kills = 0

Last(q) == q[Len(q)]
Members(q) == {q[i] : i \in DOMAIN q}
Unlink(q, n) ==
  IF n \notin Members(q) THEN q
  ELSE LET i == CHOOSE j \in DOMAIN q : q[j] = n
       IN [j \in 1 .. Len(q) - 1 |-> IF j < i THEN q[j] ELSE q[j + 1]]

(* The entry is put at the head without being taken out.                   *)
Mutant_Touch(q, n) == <<n>> \o q

Touch(q, n) == <<n>> \o Unlink(q, n)  \* to the head of the queue

(* ngx_http_file_cache_lookup: two entries may have the same key.          *)
Matches(k) == {n \in tree : node[n].key = k}

Remove(n) ==
  /\ node' = [node EXCEPT ![n] = Blank]
  /\ tree' = tree \ {n} /\ queue' = Unlink(queue, n)

AtMost(x, bound) == IF x > bound THEN bound ELSE x

-----------------------------------------------------------------------------
(* ngx_http_file_cache_exists *)

(* What the request takes down of the entry, and what it does then.  A     *)
(* request that bypasses the cache looks the key up when it has an answer, *)
(* for the sake of others, and goes on with the answer.                    *)
Hold(r, k, n, declined, error, pc) ==
  \E next \in {pc, "fetch"} :
    c' = [c EXCEPT ![r] = [pc |-> next, key |-> k, node |-> n,
                           declined |-> declined /\ next # "fetch",
                           error |-> error, updating |-> FALSE]]

(* "ok", with the file or without, or "again".                             *)
Known(r, e) ==
  IF e.exists THEN "open" ELSE IF e.uses >= MinUses[r] THEN "fetch" ELSE "pass"

Found(r, k, n) ==
  LET e == [node[n] EXCEPT !.uses = AtMost(@ + 1, MaxUses), !.count = @ + 1,
                           !.old = FALSE]
  IN
  /\ queue' = Touch(queue, n) /\ UNCHANGED tree
  /\ \/ /\ e.error  \* it has expired
        /\ node' = [node EXCEPT ![n] = [e EXCEPT !.exists = FALSE, !.error = FALSE]]
        /\ Hold(r, k, n, TRUE, FALSE, "looked")
     \/ /\ e.error
        /\ node' = [node EXCEPT ![n] = e] /\ Hold(r, k, n, FALSE, TRUE, "serve")
     \/ /\ ~e.error
        /\ node' = [node EXCEPT ![n] = e] /\ Hold(r, k, n, FALSE, FALSE, Known(r, e))

Insert(r, k, n) ==
  /\ n \notin tree
  /\ node' = [node EXCEPT ![n] = [Blank EXCEPT !.key = k, !.uses = 1, !.count = 1]]
  /\ tree' = tree \cup {n} /\ queue' = <<n>> \o queue
  /\ Hold(r, k, n, TRUE, FALSE, "looked")

Exists(r, k) ==
  /\ c[r].pc = "idle"
  /\ \/ \E n \in Matches(k) : Found(r, k, n)
     \/ Matches(k) = {} /\ \E n \in Nodes : Insert(r, k, n)
     \/ /\ Matches(k) = {} /\ tree = Nodes  \* ngx_slab_alloc_locked
        /\ c' = [c EXCEPT ![r].pc = "full", ![r].key = k] /\ UNCHANGED index
  /\ UNCHANGED <<cold, del, leaked, kills>>

(* After ngx_http_file_cache_forced_expire; nobody looks the key up again. *)
Retry(r) ==
  /\ c[r].pc = "retry" /\ del[r] = None
  /\ \/ \E n \in Nodes : Insert(r, c[r].key, n)
     \/ tree = Nodes /\ c' = [c EXCEPT ![r] = Idle] /\ UNCHANGED index
  /\ UNCHANGED <<cold, del, leaked, kills>>

-----------------------------------------------------------------------------
(* ngx_http_file_cache_open, ngx_http_file_cache_read *)

Goes(r, pc) == c' = [c EXCEPT ![r].pc = pc, ![r].declined = @ /\ pc = "open"]

(* Without a file: a key that was seen too rarely is not cached.           *)
Missing(r) == IF c[r].declined /\ MinUses[r] > 1 THEN "pass" ELSE "fetch"

(* While the cache is cold there may be a file nobody knows of.            *)
Decide(r) ==
  /\ c[r].pc = "looked"
  /\ Goes(r, IF cold THEN "open" ELSE Missing(r))
  /\ UNCHANGED <<index, cold, del, leaked, kills>>

Open(r) ==
  /\ c[r].pc = "open"
  /\ Goes(r, "read") \/ Goes(r, Missing(r))
  /\ UNCHANGED <<index, cold, del, leaked, kills>>

(* A file with a bad header is fetched anew.  While the cache is cold the  *)
(* request may know of a file before the loader does.                      *)
Read(r) ==
  LET n == c[r].node IN
  /\ c[r].pc = "read"
  /\ \/ Goes(r, "fetch") /\ UNCHANGED node
     \/ /\ Goes(r, "check")
        /\ node' = IF cold /\ ~node[n].exists
                     THEN [node EXCEPT ![n].uses = 1, ![n].exists = TRUE]
                     ELSE node
  /\ UNCHANGED <<tree, queue, cold, del, leaked, kills>>

(* The file is valid, or stale.  Then one request is to update it, the     *)
(* others fetch it too or, by proxy_cache_use_stale, are served from it.   *)
Check(r) ==
  LET n == c[r].node IN
  /\ c[r].pc = "check"
  /\ \/ Goes(r, "serve") /\ UNCHANGED node
     \/ node[n].updating /\ Goes(r, "fetch") /\ UNCHANGED node
     \/ /\ ~node[n].updating
        /\ node' = [node EXCEPT ![n].updating = TRUE]
        /\ c' = [c EXCEPT ![r].pc = "fetch", ![r].updating = TRUE]
  /\ UNCHANGED <<tree, queue, cold, del, leaked, kills>>

-----------------------------------------------------------------------------
(* ngx_http_file_cache_update, ngx_http_file_cache_free *)

(* The answer is complete, the temporary file gets its name.               *)
Rename(r) ==
  /\ c[r].pc = "fetch"
  /\ c' = [c EXCEPT ![r].pc = "update", ![r].updating = FALSE]
  /\ UNCHANGED <<index, cold, del, leaked, kills>>

(* The reference is kept.                                                  *)
Mutant_Update(r) ==
  /\ c[r].pc = "update"
  /\ node' = [node EXCEPT ![c[r].node].updating = FALSE]
  /\ c' = [c EXCEPT ![r] = Idle]
  /\ UNCHANGED <<tree, queue, cold, del, leaked, kills>>

Update(r) ==
  LET n == c[r].node IN
  /\ c[r].pc = "update"
  /\ \E renamed \in BOOLEAN :
       node' = [node EXCEPT ![n].count = @ - 1, ![n].updating = FALSE,
                            ![n].exists = @ \/ renamed]
  /\ c' = [c EXCEPT ![r] = Idle]
  /\ UNCHANGED <<tree, queue, cold, del, leaked, kills>>

(* The update that did not come about is not called off.                   *)
Mutant_Free(r) ==
  /\ c[r].pc \in {"serve", "fetch", "pass", "open"}
  /\ node' = [node EXCEPT ![c[r].node].count = @ - 1]
  /\ c' = [c EXCEPT ![r] = Idle]
  /\ UNCHANGED <<tree, queue, cold, del, leaked, kills>>

(* The request ends otherwise: it was served from the cache, its answer is *)
(* not to be cached, it failed, and maybe the failure is to be remembered. *)
Free(r) ==
  LET n == c[r].node IN
  /\ c[r].pc \in {"serve", "fetch", "pass", "open"}
  /\ \E failed \in BOOLEAN :
       LET error == failed \/ c[r].error
           e == [node[n] EXCEPT !.count = @ - 1,
                                !.updating = @ /\ ~c[r].updating,
                                !.error = @ \/ error]
       IN
       /\ failed => c[r].pc \in {"fetch", "pass"}
       /\ IF ~error /\ ~e.exists /\ e.count = 0 /\ MinUses[r] = 1
            THEN Remove(n)
            ELSE node' = [node EXCEPT ![n] = e] /\ UNCHANGED <<tree, queue>>
  /\ c' = [c EXCEPT ![r] = Idle]
  /\ UNCHANGED <<cold, del, leaked, kills>>

-----------------------------------------------------------------------------
(* ngx_http_file_cache_delete *)

(* Up to the unlock, or all of it when there is no file to remove.         *)
Delete(p, n) ==
  IF node[n].exists
    THEN /\ node' = [node EXCEPT ![n].count = @ + 1, ![n].deleting = TRUE]
         /\ del' = [del EXCEPT ![p] = n]
         /\ UNCHANGED <<tree, queue>>
    ELSE Remove(n) /\ UNCHANGED del

(* The count is not looked at again.                                       *)
Mutant_Deleted(p) ==
  /\ del[p] # None
  /\ Remove(del[p])
  /\ del' = [del EXCEPT ![p] = None]
  /\ UNCHANGED <<cold, c, leaked, kills>>

(* Locked again: somebody may have come for the entry meanwhile.           *)
Deleted(p) ==
  LET n == del[p] IN
  /\ n # None
  /\ IF node[n].count = 1
       THEN Remove(n)
       ELSE /\ node' = [node EXCEPT ![n].count = @ - 1, ![n].deleting = FALSE]
            /\ UNCHANGED <<tree, queue>>
  /\ del' = [del EXCEPT ![p] = None]
  /\ UNCHANGED <<cold, c, leaked, kills>>

(* The entries ngx_http_file_cache_forced_expire could take: it looks from *)
(* the end of the queue for one that nobody uses.                          *)
Unused == {i \in DOMAIN queue : i > Len(queue) - Tries /\ node[queue[i]].count = 0}
Victims == {queue[i] : i \in {k \in Unused : \A j \in Unused : j <= k}}

ForcedExpire(r) ==
  /\ c[r].pc = "full"
  /\ Goes(r, "retry")
  /\ \/ \E n \in Victims : Delete(r, n)
     \/ Unused = {} /\ UNCHANGED <<index, del>>
  /\ UNCHANGED <<cold, leaked, kills>>

-----------------------------------------------------------------------------
(* ngx_http_file_cache_manager *)

(* One turn of the loop in ngx_http_file_cache_expire.  It looks at the    *)
(* end of the queue, and is over when that entry is not due, or has count  *)
(* but is being deleted.  It unlocks only to delete a file; here others    *)
(* may come in between any two turns.                                      *)
Due == queue # <<>> /\ node[Last(queue)].old

Expire(m) ==
  LET n == Last(queue) IN
  /\ Due /\ del[m] = None
  /\ \/ node[n].count = 0 /\ Delete(m, n)
     \/ /\ node[n].count > 0 /\ ~node[n].deleting
        /\ queue' = Touch(queue, n)  \* "ignore long locked inactive cache entry"
        /\ node' = [node EXCEPT ![n].old = FALSE]
        /\ UNCHANGED <<tree, del>>
  /\ UNCHANGED <<cold, c, leaked, kills>>

(* The cache is too large.                                                 *)
Shrink(m) ==
  /\ del[m] = None /\ \E n \in Victims : Delete(m, n)
  /\ UNCHANGED <<cold, c, leaked, kills>>

-----------------------------------------------------------------------------
(* ngx_http_file_cache_loader *)

(* An entry that is there gets more time, but keeps its place.             *)
Mutant_Visit(k) ==
  /\ cold
  /\ \E n \in Matches(k) : node' = [node EXCEPT ![n].old = FALSE]
  /\ UNCHANGED <<tree, queue, cold, c, del, leaked, kills>>

(* ngx_http_file_cache_manage_file.  A loader is at work now and then as   *)
(* long as the cache is cold: it may be told to quit, and the next         *)
(* configuration starts another.  A file that there is no room for in the  *)
(* index is removed.                                                       *)
Visit(k) ==
  /\ cold
  /\ \/ \E n \in Matches(k) :
          /\ node' = [node EXCEPT ![n].old = FALSE]
          /\ queue' = Touch(queue, n) /\ UNCHANGED tree
     \/ /\ Matches(k) = {}
        /\ \E n \in Nodes \ tree :
             /\ node' = [node EXCEPT ![n] = [Blank EXCEPT !.key = k, !.uses = 1,
                                                          !.exists = TRUE]]
             /\ tree' = tree \cup {n} /\ queue' = <<n>> \o queue
  /\ UNCHANGED <<cold, c, del, leaked, kills>>

(* It has walked over the whole tree of files.                             *)
Loaded ==
  /\ cold /\ cold' = FALSE
  /\ UNCHANGED <<index, c, del, leaked, kills>>

-----------------------------------------------------------------------------
(* The entries' time passes.                                               *)
Age ==
  /\ node' = [n \in Nodes |-> [node[n] EXCEPT !.old = n \in tree]]
  /\ UNCHANGED <<tree, queue, cold, c, del, leaked, kills>>

(* A worker exits abnormally, outside of the mutex, with an entry in use.  *)
Kill(r) ==
  /\ kills < MaxKills /\ kills' = kills + 1
  /\ c[r].node # None \/ (del[r] # None /\ KillInDelete)
  /\ leaked' = [n \in Nodes |-> leaked[n] + (IF n \in {c[r].node, del[r]} THEN 1 ELSE 0)]
  /\ c' = [c EXCEPT ![r] = Idle] /\ del' = [del EXCEPT ![r] = None]
  /\ UNCHANGED <<index, cold>>

Request(r) == \/ (\E k \in Keys : Exists(r, k)) \/ ForcedExpire(r) \/ Retry(r)
              \/ Decide(r) \/ Open(r) \/ Read(r) \/ Check(r) \/ Rename(r)
              \/ Update(r) \/ Free(r) \/ Kill(r)

Next == \/ \E r \in Requests : Request(r)
        \/ \E m \in Managers : Expire(m) \/ Shrink(m)
        \/ \E p \in Processes : Deleted(p)
        \/ (\E k \in Keys : Visit(k)) \/ Loaded
        \/ Age

Spec == Init /\ [][Next]_vars

-----------------------------------------------------------------------------
(* Properties *)

(* The count of an entry is the number of requests that hold it, of those  *)
(* that delete its file, and of those that died doing so: with one less an *)
(* entry would be freed below a request, with one more it would stay.      *)
NodeCount ==
  \A n \in tree :
    node[n].count = Cardinality({r \in Requests : c[r].node = n})
                    + Cardinality({p \in Processes : del[p] = n}) + leaked[n]

(* An entry that somebody works with has not been freed or reused for      *)
(* another key, and the queue holds every entry of the tree once.          *)
HeldIsInTree ==
  /\ \A r \in Requests :
       c[r].node # None => c[r].node \in tree /\ node[c[r].node].key = c[r].key
  /\ \A p \in Processes : del[p] # None => del[p] \in tree

QueueExact ==
  /\ Members(queue) = tree
  /\ \A i, j \in DOMAIN queue : queue[i] = queue[j] => i = j

(* A stale file that is marked as being updated is being updated: by a     *)
(* request that will clear the mark, unless its worker died.  Otherwise it *)
(* would be served stale until it is thrown out.                           *)
UpdatingClaimed ==
  \A n \in tree : node[n].updating =>
    \/ leaked[n] > 0
    \/ \E r \in Requests :
         /\ c[r].node = n
         /\ c[r].updating \/ c[r].pc = "update"

(* The manager that stops at an entry that is not due misses none that is, *)
(* and the one that stops at an entry in deletion is followed by another:  *)
(* whenever an unused entry is due, the end of the queue is, and it can be *)
(* removed, moved away, or somebody has yet to come back from its unlink.  *)
InactiveInReach ==
  (\E n \in tree : node[n].old /\ node[n].count = 0) =>
    /\ Due
    /\ LET n == Last(queue) IN
       node[n].count > 0 /\ node[n].deleting => \E p \in Processes : del[p] = n

=============================================================================
