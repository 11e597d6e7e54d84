-------------------------- MODULE SessionWorktrees --------------------------
(***************************************************************************)
(* Which chat session works in which git worktree.  The binding is kept    *)
(* three times: in two Redis hashes and two maps of SessionWorktreeService *)
(* (forward and reverse), and in the hot cache of InteractionService, the  *)
(* one that tool calls are routed by.  The cache is set at once, the claim *)
(* follows in the background, in steps between which other turns, claims   *)
(* and releases run.                                                       *)
(*                                                                         *)
(* A step is one command to Redis and the code up to the next: replies of  *)
(* the one connection come back in order.  Redis is up; its outage, where  *)
(* only the maps remain, is left out.                                      *)
(***************************************************************************)
EXTENDS Naturals

CONSTANTS
  Sessions,
  Worktrees,
  MaxRestarts    \* bound on the gateway's restarts

None == "none"

VARIABLES
  disk,       \* the worktrees the dev agent lists (external)
  fwd, rev,   \* oasis:session_worktrees, oasis:worktree_sessions
  memFwd, memRev, \* memSessionToWorktree, memWorktreeToSession
  cache,      \* sessionWorktrees of InteractionService
  turn,       \* the tool turn of a session: where it waits, what it has still to look at
  claim,      \* the claim a session has under way in the background
  freeing,    \* the release a worktree has under way for an apply or a discard
  restarts

redis == <<fwd, rev>>
maps == <<memFwd, memRev>>
vars == <<disk, fwd, rev, memFwd, memRev, cache, turn, claim, freeing, restarts>>

Idle == [at |-> "idle", left |-> {}]
NoClaim == [at |-> "none", worktree |-> None, target |-> None, owner |-> None, again |-> FALSE]
NotFreeing == [at |-> "none", owner |-> None]
Nothing(S) == [x \in S |-> None]

Init ==
  /\ disk \in SUBSET Worktrees
  /\ fwd = Nothing(Sessions) /\ memFwd = Nothing(Sessions) /\ cache = Nothing(Sessions)
  /\ rev = Nothing(Worktrees) /\ memRev = Nothing(Worktrees)
  /\ turn = [s \in Sessions |-> Idle]
  /\ claim = [s \in Sessions |-> NoClaim]
  /\ freeing = [w \in Worktrees |-> NotFreeing]
  /\ restarts = 0

Get(s) == IF fwd[s] # None THEN fwd[s] ELSE memFwd[s]
OwnerOf(w) == IF rev[w] # None THEN rev[w] ELSE memRev[w]

(* Both halves of a binding, in Redis by one transaction.                  *)
Released(w, owner) ==
  /\ rev' = [rev EXCEPT ![w] = None]
  /\ memRev' = [memRev EXCEPT ![w] = None]
  /\ fwd' = [s \in Sessions |-> IF s = owner THEN None ELSE fwd[s]]
  /\ memFwd' = [s \in Sessions |-> IF s = owner THEN None ELSE memFwd[s]]

(***************************************************************************)
(* The cache is set and the claim begins, with a look at what the session  *)
(* had before.  (At most one claim of a session is under way here.)        *)
(***************************************************************************)
SetSessionWorktree(s, w) ==
  /\ claim[s] = NoClaim
  /\ cache' = [cache EXCEPT ![s] = w]
  /\ claim' = [claim EXCEPT ![s] = [NoClaim EXCEPT !.at = "get", !.worktree = w]]

(***************************************************************************)
(* A tool turn: the cache is filled from the service, and a session that   *)
(* has no worktree adopts the newest without an owner.  The order of the   *)
(* list is left open.                                                      *)
(***************************************************************************)
TurnTo(s, where, left) == turn' = [turn EXCEPT ![s] = [at |-> where, left |-> left]]

TurnStarts(s) ==
  /\ turn[s].at = "idle"
  /\ TurnTo(s, IF cache[s] # None THEN "working" ELSE "refresh", {})
  /\ UNCHANGED <<disk, redis, maps, cache, claim, freeing, restarts>>

Refreshed(s) ==
  /\ turn[s].at = "refresh"
  /\ cache' = [cache EXCEPT ![s] = Get(s)]
  /\ TurnTo(s, IF Get(s) # None THEN "working" ELSE "list", {})
  /\ UNCHANGED <<disk, redis, maps, claim, freeing, restarts>>

Listed(s) ==
  /\ turn[s].at = "list"
  /\ TurnTo(s, IF disk = {} THEN "working" ELSE "owner", disk)
  /\ UNCHANGED <<disk, redis, maps, cache, claim, freeing, restarts>>

Adopts(s, w) ==
  /\ turn[s].at = "owner" /\ w \in turn[s].left
  /\ OwnerOf(w) = None
  /\ SetSessionWorktree(s, w)
  /\ TurnTo(s, "working", {})
  /\ UNCHANGED <<disk, redis, maps, freeing, restarts>>

PassesOver(s, w) ==
  /\ turn[s].at = "owner" /\ w \in turn[s].left
  /\ OwnerOf(w) # None
  /\ TurnTo(s, IF turn[s].left = {w} THEN "working" ELSE "owner", turn[s].left \ {w})
  /\ UNCHANGED <<disk, redis, maps, cache, claim, freeing, restarts>>

(* create_worktree, refused to a session that has one in its cache; or the *)
(* replacement of one the dev agent no longer finds.                       *)
Creates(s, w) ==
  /\ turn[s].at = "working" /\ w \notin disk
  /\ cache[s] = None \/ cache[s] \notin disk
  /\ disk' = disk \cup {w}
  /\ SetSessionWorktree(s, w)
  /\ UNCHANGED <<redis, maps, turn, freeing, restarts>>

TurnEnds(s) ==
  /\ turn[s].at = "working"
  /\ TurnTo(s, "idle", {})
  /\ UNCHANGED <<disk, redis, maps, cache, claim, freeing, restarts>>

(***************************************************************************)
(* The claim.                                                              *)
(***************************************************************************)
ClaimTo(s, c) == claim' = [claim EXCEPT ![s] = c]
ClaimWaits(s, where) == claim[s].at = where /\ UNCHANGED <<disk, turn, freeing, restarts>>

ClaimGets(s) ==
  /\ ClaimWaits(s, "get")
  /\ LET previous == Get(s)
         c == claim[s]
     IN ClaimTo(s, IF previous \in {None, c.worktree} THEN [c EXCEPT !.at = "setnx"]
                   ELSE [c EXCEPT !.at = "release owner", !.target = previous])
  /\ UNCHANGED <<redis, maps, cache>>

(* releaseWorktree, of the previous worktree or of the one to be taken.    *)
ClaimFindsOwner(s) ==
  /\ ClaimWaits(s, "release owner")
  /\ ClaimTo(s, [claim[s] EXCEPT !.at = "release", !.owner = OwnerOf(claim[s].target)])
  /\ UNCHANGED <<redis, maps, cache>>

ClaimReleases(s) ==
  /\ ClaimWaits(s, "release")
  /\ Released(claim[s].target, claim[s].owner)
  /\ LET c == [claim[s] EXCEPT !.target = None, !.owner = None]
     IN ClaimTo(s, IF claim[s].target = c.worktree THEN [c EXCEPT !.at = "get"]
                   ELSE [c EXCEPT !.at = "setnx"])
  /\ UNCHANGED cache

ClaimSets(s) ==
  /\ ClaimWaits(s, "setnx")
  /\ LET w == claim[s].worktree
     IN IF rev[w] = None
        THEN rev' = [rev EXCEPT ![w] = s] /\ ClaimTo(s, [claim[s] EXCEPT !.at = "hset"])
        ELSE UNCHANGED rev /\ ClaimTo(s, [claim[s] EXCEPT !.at = "hget"])
  /\ UNCHANGED <<fwd, maps, cache>>

ClaimKept(s) ==
  /\ ClaimWaits(s, "hget") /\ rev[claim[s].worktree] \in {None, s}
  /\ ClaimTo(s, [claim[s] EXCEPT !.at = "hset"])
  /\ UNCHANGED <<redis, maps, cache>>

(* 'already owned': the other session's claim is taken for a stale one,    *)
(* released, and the claim made again; the second time it is given up.     *)
ClaimTakesOver(s) ==
  /\ ClaimWaits(s, "hget") /\ rev[claim[s].worktree] \notin {None, s} /\ ~claim[s].again
  /\ ClaimTo(s, [claim[s] EXCEPT !.at = "release owner", !.target = claim[s].worktree,
                                 !.again = TRUE])
  /\ UNCHANGED <<redis, maps, cache>>

ClaimGivenUp(s) ==
  /\ ClaimWaits(s, "hget") /\ rev[claim[s].worktree] \notin {None, s} /\ claim[s].again
  /\ cache' = [cache EXCEPT ![s] = IF @ = claim[s].worktree THEN None ELSE @]
  /\ ClaimTo(s, NoClaim)
  /\ UNCHANGED <<redis, maps>>

ClaimEnds(s) ==
  /\ ClaimWaits(s, "hset")
  /\ LET w == claim[s].worktree
     IN /\ fwd' = [fwd EXCEPT ![s] = w]
        /\ memFwd' = [memFwd EXCEPT ![s] = w]
        /\ memRev' = [memRev EXCEPT ![w] = s]
  /\ ClaimTo(s, NoClaim)
  /\ UNCHANGED <<rev, cache>>

(***************************************************************************)
(* The user applies a worktree, which stays on disk, or discards it.       *)
(* Either way its binding is released, in the service only.                *)
(***************************************************************************)
Applied(w) ==
  /\ w \in disk /\ freeing[w] = NotFreeing
  /\ disk' \in {disk, disk \ {w}}
  /\ freeing' = [freeing EXCEPT ![w] = [at |-> "owner", owner |-> None]]
  /\ UNCHANGED <<redis, maps, cache, turn, claim, restarts>>

FreeingFindsOwner(w) ==
  /\ freeing[w].at = "owner"
  /\ freeing' = [freeing EXCEPT ![w] = [at |-> "release", owner |-> OwnerOf(w)]]
  /\ UNCHANGED <<disk, redis, maps, cache, turn, claim, restarts>>

Freed(w) ==
  /\ freeing[w].at = "release"
  /\ Released(w, freeing[w].owner)
  /\ freeing' = [freeing EXCEPT ![w] = NotFreeing]
  /\ UNCHANGED <<disk, cache, turn, claim, restarts>>

(* The gateway restarts: Redis and the disk are what is left.              *)
Restart ==
  /\ restarts < MaxRestarts /\ restarts' = restarts + 1
  /\ memFwd' = Nothing(Sessions) /\ memRev' = Nothing(Worktrees) /\ cache' = Nothing(Sessions)
  /\ turn' = [s \in Sessions |-> Idle]
  /\ claim' = [s \in Sessions |-> NoClaim]
  /\ freeing' = [w \in Worktrees |-> NotFreeing]
  /\ UNCHANGED <<disk, redis>>

Next ==
  \/ \E s \in Sessions : \/ TurnStarts(s) \/ Refreshed(s) \/ Listed(s) \/ TurnEnds(s)
                         \/ ClaimGets(s) \/ ClaimFindsOwner(s) \/ ClaimReleases(s)
                         \/ ClaimSets(s) \/ ClaimKept(s) \/ ClaimTakesOver(s)
                         \/ ClaimGivenUp(s) \/ ClaimEnds(s)
  \/ \E s \in Sessions, w \in Worktrees : Adopts(s, w) \/ PassesOver(s, w) \/ Creates(s, w)
  \/ \E w \in Worktrees : Applied(w) \/ FreeingFindsOwner(w) \/ Freed(w)
  \/ Restart

Spec == Init /\ [][Next]_vars

(* "Allocates worktrees per chat session and persists the mapping in Redis *)
(* so concurrent sessions never reuse each other's worktree": once the     *)
(* claims are settled, no two sessions' tool calls are routed to the same  *)
(* worktree.  The code breaks it: a claim that finds the worktree owned    *)
(* takes the owner for stale, and a release leaves the hot cache alone.    *)
NoSharedWorktree ==
  (\A s \in Sessions : claim[s] = NoClaim)
  => \A s, u \in Sessions : s # u /\ cache[s] # None => cache[s] # cache[u]
=============================================================================
