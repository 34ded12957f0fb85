-------------------------- MODULE WritebackCredits --------------------------
(***************************************************************************)
(* bpf/rocksdb.bpf.c: RocksDB's submissions register the inodes of their   *)
(* files (bpftime_inode_map), a kprobe on __writeback_single_inode counts  *)
(* the write-backs of registered inodes, and wait_for_queue is skipped for *)
(* as many requests as have been counted.                                  *)
(*                                                                         *)
(* The probes run on several CPUs and share successful_writeback_count     *)
(* without a lock or an atomic instruction: each loads it once and stores  *)
(* it later.  An action runs a probe up to the load, or from the load on.  *)
(* The 64 bits of the counter are not exhausted; its being unsigned is     *)
(* what a negative value would show.                                       *)
(***************************************************************************)
EXTENDS Integers

CONSTANTS Cpus,
          Inodes,
          Key(_),       \* the u32 key of an inode number: bits get lost
          Counts,       \* values of sync_count, a u8
          MaxEarned,    \* bound: no write-back begins once so many are counted
          MaxSpent      \* bound: no wait, once so many requests are let off

ASSUME CreditsAssumption ==
    /\ Counts \subseteq 0..255 /\ MaxEarned \in Nat /\ MaxSpent \in Nat
    /\ \A i \in Inodes : Key(i) \in Inodes

VARIABLES counter,      \* successful_writeback_count
          watched,      \* the keys of bpftime_inode_map
          cpc,          \* per CPU: where its probe is
          reg,          \* per CPU: what its probe has loaded, or 0
          need,         \* per CPU: count, of the waiter, or 0
          earned,       \* history: write-backs counted
          spent,        \* history: requests waiters were let off
          overlapped    \* history: 1 once a probe loaded between the load
                        \* and the store of another

local == <<cpc, reg, need>>
vars  == <<counter, watched, local, earned, spent, overlapped>>

Init ==
    /\ counter = 0 /\ watched = {}
    /\ cpc = [c \in Cpus |-> "idle"]
    /\ reg = [c \in Cpus |-> 0] /\ need = [c \in Cpus |-> 0]
    /\ earned = 0 /\ spent = 0 /\ overlapped = 0

Goto(c, l) == cpc' = [cpc EXCEPT ![c] = l]

\* The probe of CPU c loads the counter.
Load(c) ==
    /\ reg' = [reg EXCEPT ![c] = counter]
    /\ overlapped' = IF \E d \in Cpus : cpc[d] # "idle" THEN 1 ELSE overlapped

\* bpftime_hook_function_for_submit_fd: the inode of the file is registered.
SubmitFd(c, i) ==
    /\ cpc[c] = "idle"
    /\ watched' = watched \cup {Key(i)}
    /\ UNCHANGED <<counter, local, earned, spent, overlapped>>

\* __writeback_single_inode of a registered inode: load, ...
Writeback(c, i) ==
    /\ cpc[c] = "idle" /\ earned < MaxEarned
    /\ Key(i) \in watched
    /\ Load(c)
    /\ Goto(c, "add")
    /\ UNCHANGED <<counter, watched, need, earned, spent>>

\* Mutant: two instead of one.
CountTwice(c) ==
    /\ cpc[c] = "add" /\ Goto(c, "idle")
    /\ counter' = reg[c] + 2
    /\ reg' = [reg EXCEPT ![c] = 0]
    /\ earned' = earned + 1
    /\ UNCHANGED <<watched, need, spent, overlapped>>

\* ... add one, store.
Count(c) ==
    /\ cpc[c] = "add" /\ Goto(c, "idle")
    /\ counter' = reg[c] + 1
    /\ reg' = [reg EXCEPT ![c] = 0]
    /\ earned' = earned + 1
    /\ UNCHANGED <<watched, need, spent, overlapped>>

\* Mutant: the counter need only not be 0.
EnterUnlessZero(c, n) ==
    /\ cpc[c] = "idle"
    /\ spent < MaxSpent
    /\ counter > 0
    /\ Load(c)
    /\ need' = [need EXCEPT ![c] = n]
    /\ Goto(c, "spend")
    /\ UNCHANGED <<counter, watched, earned, spent>>

\* wait_for_queue, for n requests, when that many have been counted: load, ...
Enter(c, n) ==
    /\ cpc[c] = "idle"
    /\ spent < MaxSpent
    /\ ~(counter <= 0 \/ counter < n)
    /\ Load(c)
    /\ need' = [need EXCEPT ![c] = n]
    /\ Goto(c, "spend")
    /\ UNCHANGED <<counter, watched, earned, spent>>

\* Mutant: the waiter stores what it needed, not what is left.
SkipStoresNeed(c) ==
    /\ cpc[c] = "spend" /\ Goto(c, "idle")
    /\ counter' = need[c]
    /\ spent' = spent + need[c]
    /\ reg' = [reg EXCEPT ![c] = 0] /\ need' = [need EXCEPT ![c] = 0]
    /\ UNCHANGED <<watched, earned, overlapped>>

\* ... subtract, store; the wait is skipped.  Otherwise the probe changes
\* nothing and the wait takes place.
Skip(c) ==
    /\ cpc[c] = "spend" /\ Goto(c, "idle")
    /\ counter' = reg[c] - need[c]
    /\ spent' = spent + need[c]
    /\ reg' = [reg EXCEPT ![c] = 0] /\ need' = [need EXCEPT ![c] = 0]
    /\ UNCHANGED <<watched, earned, overlapped>>

Next == \E c \in Cpus :
    \/ \E i \in Inodes : SubmitFd(c, i) \/ Writeback(c, i)
    \/ Count(c)
    \/ \E n \in Counts : Enter(c, n)
    \/ Skip(c)

Spec == Init /\ [][Next]_vars

-----------------------------------------------------------------------------
\* The counter is unsigned: below 0 it would be some 2^64 credits and no wait
\* would ever take place again.  The test in wait_for_queue and the subtraction
\* see the same load, so that it cannot happen, whatever the other CPUs store.
TypeOK ==
    /\ watched \subseteq Inodes
    /\ cpc \in [Cpus -> {"idle", "add", "spend"}]
    /\ counter \in Nat /\ reg \in [Cpus -> Nat]
    /\ need \in [Cpus -> Counts \cup {0}]
    /\ earned \in Nat /\ spent \in Nat /\ overlapped \in {0, 1}

\* Races on the counter lose credits, and a late store brings spent ones back;
\* still it never exceeds the write-backs that were counted.
NeverInvents == counter <= earned

\* As long as no two probes have overlapped the books balance: a wait was let
\* off for each write-back counted, or still can be, and for no other.
Balanced == overlapped = 0 => counter + spent = earned
=============================================================================
