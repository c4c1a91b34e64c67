------------------------- MODULE HeapTracerProperties -------------------------
(***************************************************************************)
(* What a program may expect of the heap tracer of module HeapTracer.      *)
(* It frees and reallocates only what it holds.                            *)
(***************************************************************************)
EXTENDS HeapTracer

Pcs == {"idle", "lock", "dlsym", "resolved", "enter", "take", "link",
        "default_free", "unlink_old", "exiting", "gone"}

\* The types of the variables.
TypeOK ==
    /\ is_init_done \in BOOLEAN /\ is_exit_done \in BOOLEAN
    /\ init_lock \in Threads \cup {None}
    /\ default_heap \in {"none", "static", "system"}
    /\ allocs \in Seq([mem : Addrs, site : Sites])
    /\ alloc_count \in Int /\ alloc_pool \in Nat /\ alloc_batch \in Nat
    /\ heap \subseteq Addrs /\ hidden \subseteq Addrs
    /\ live \in [DOMAIN live -> Sites] /\ DOMAIN live \subseteq Addrs
    /\ pc \in [Threads -> Pcs]
    /\ call \in [Threads -> [op : {"none", "alloc", "strdup", "free", "realloc"},
                             ptr : Addrs \cup {None}, res : Addrs \cup {None, Failed},
                             site : Sites]]

\* A thread was given this block and has not removed its record yet.
HoldsRecord(t, a) ==
    /\ call[t].op \in {"free", "realloc"} /\ call[t].ptr = a
    /\ pc[t] \in {"lock", "dlsym", "resolved", "enter", "unlink_old"}

Records(a) == Cardinality({i \in DOMAIN allocs : allocs[i].mem = a})
Owners(a) == Cardinality({t \in Threads : HoldsRecord(t, a)}) + (IF a \in DOMAIN live THEN 1 ELSE 0)

\* Until the program exits, the table has one record for each block the program
\* holds or is about to give back, one more where an address was handed out again
\* before its last record was removed, and none for anything else; alloc_count,
\* which heaph_get_alloc_count returns, is their number.
TableMatchesHeap == TypeOK /\
    (~lost /\ ~is_exit_done /\ Running =>
        /\ \A a \in Addrs : Records(a) = Owners(a)
        /\ alloc_count = Len(allocs))

\* A program that frees what it holds is not told that it frees "bad memory"
\* (lines 237, 244), in whatever order threads get and give back the same address,
\* and no assertion of the initialisation fails.  Three things have to be left
\* out: a realloc that failed, because line 589 removes the record of a block that
\* is still there; two threads that both find nothing initialised, because the
\* second one resets what the first one set; and strdup after the exit began.
NoFalseAlarm ==
    \/ aborted \in {"no", "strdup at exit"}
    \/ aborted = "freeing bad memory" /\ lost
    \/ aborted \in {"static", "initialised twice"} /\ raced

\* The leaks reported at exit are the blocks the user's code still holds, if no
\* other thread is in a call at that time: whether an address was handed out
\* again matters, because alloc_free removes the newest record of an address and
\* may leave the one of a block that is gone, allocated somewhere else.
ReportIsExact == report # None /\ held # None /\ ~lost /\ ~reused => report = held

\* The tracer's own memory, which it never gives back, does not grow with the
\* calls: it cuts one record for each block and one for each other thread that has
\* freed a block by realloc and not removed its record yet.
RecordsAreReused == alloc_batch <= Cardinality(Addrs) + Cardinality(Threads) - 1

\* Every call returns, the ones that wait for another thread's initialisation too,
\* unless the program is ended by an
\* assertion or by exit.
CallsReturn ==
    \A t \in Threads : pc[t] \in Pcs \ {"idle", "gone"} ~> pc[t] \in {"idle", "gone"} \/ ~Running
=============================================================================
