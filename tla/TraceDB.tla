------------------------------- MODULE TraceDB -------------------------------
(***************************************************************************)
(* The trace database of rhdl-x/src/trace.rs and its VCD dump.  While a    *)
(* simulation runs, push_path/pop_path/set_time/trace record time series   *)
(* keyed by a hash of (path, key); dump_vcd then merges all series by time *)
(* with one cursor per series.  The dump's loops are modelled one inner    *)
(* pass (one sweep of the for loop over the cursors) per step.  Every     *)
(* method is called from one thread (the DB is thread-local).              *)
(***************************************************************************)
EXTENDS Integers, Sequences, SequencesExt, FiniteSets

CONSTANTS Names,      \* path segments (function names)
          Keys,       \* trace keys
          KeyType,    \* KeyType[k]: the Digital type traced under key k
          MaxDepth,   \* deepest path the simulated kernels push
          MaxTraces,  \* trace() calls in one simulation
          TimeBits,   \* width of the u64 time, shrunk
          TimeLimit,  \* the latest time the simulation sets
          Hashes,     \* the u32 TimeSeriesHash values, shrunk
          KeyHashOf(_, _), \* FNV-64 of (path, key) truncated to a Hash
          NoValue

Sentinel == 2 ^ TimeBits - 1          \* !0 of the time type
Vals == {0, 1}

VARIABLES db,        \* hash -> [ty, values: seq of [t, v]] (db and details)
          details,   \* hash -> [path, key]
          path, time, calls,
          log,       \* every trace() call: [path, key, t, v] (history)
          phase,     \* "record", "dump", "done", "panic"
          cursors, current_time, next_time, keep_running, found_match, pc,
          out        \* the VCD body: timestamps and value changes

vars == <<db, details, path, time, calls, log, phase, cursors,
          current_time, next_time, keep_running, found_match, pc, out>>

-----------------------------------------------------------------------------
(* Recording *)

push_path(n) ==
    /\ phase = "record" /\ Len(path) < MaxDepth
    /\ path' = Append(path, n)
    /\ UNCHANGED <<db, details, time, calls, log, phase, cursors, current_time,
                   next_time, keep_running, found_match, pc, out>>

\* Vec::pop on an empty path is a no-op.
pop_path ==
    /\ phase = "record"
    /\ path' = IF path = <<>> THEN path ELSE Front(path)
    /\ UNCHANGED <<db, details, time, calls, log, phase, cursors, current_time,
                   next_time, keep_running, found_match, pc, out>>

\* set_time assigns any time; its callers (not in this repository) only move
\* it forward, which the guard states.
set_time(t) ==
    /\ phase = "record" /\ time <= t
    /\ time' = t
    /\ UNCHANGED <<db, details, path, calls, log, phase, cursors, current_time,
                   next_time, keep_running, found_match, pc, out>>

key_hash(k) == KeyHashOf(path, k)

\* Mutant: a second value at the same time is dropped as a repeat.
push_if_changed_same_time(vs, t, v) ==
    IF vs # <<>> /\ (Last(vs).v = v \/ Last(vs).t = t) THEN vs ELSE Append(vs, [t |-> t, v |-> v])

\* TimeSeries::push_if_changed
push_if_changed(vs, t, v) ==
    IF vs # <<>> /\ Last(vs).v = v THEN vs ELSE Append(vs, [t |-> t, v |-> v])

\* trace(): an occupied entry of another type fails the downcast (panic).
trace(k, v) ==
    /\ phase = "record" /\ calls < MaxTraces
    /\ LET h == key_hash(k)
       IN IF h \in DOMAIN db
          THEN IF db[h].ty # KeyType[k]
               THEN phase' = "panic" /\ UNCHANGED <<db, details>>
               ELSE /\ db' = [db EXCEPT ![h].values = push_if_changed(@, time, v)]
                    /\ UNCHANGED <<details, phase>>
          ELSE /\ details' = details @@ (h :> [path |-> path, key |-> k])
               /\ db' = db @@ (h :> [ty |-> KeyType[k], values |-> <<[t |-> time, v |-> v]>>])
               /\ UNCHANGED phase
    /\ calls' = calls + 1
    /\ log' = Append(log, [path |-> path, key |-> k, t |-> time, v |-> v])
    /\ UNCHANGED <<path, time, cursors, current_time, next_time, keep_running,
                   found_match, pc, out>>

-----------------------------------------------------------------------------
(* dump_vcd *)

\* TimeSeriesWalk::cursor: a cursor at the series' first value.
cursor(h) == [hash |-> h, ptr |-> 1]

\* advance_cursor keeps next_time as the time at ptr, or None past the end.
NextTime(c) == IF c.ptr <= Len(db[c.hash].values) THEN db[c.hash].values[c.ptr].t ELSE NoValue

\* write_vcd: the value at ptr is written, then the cursor advanced.
write_vcd(o, c) == Append(o, [hash |-> c.hash, v |-> db[c.hash].values[c.ptr].v])

\* hierarchical_walk builds a tree of scopes from the details, and
\* setup_cursors visits it; the signal order it yields is abstracted to an
\* arbitrary fixed order (no property depends on it).
hierarchical_walk == SetToSeq(DOMAIN details)

setup_cursors == [i \in DOMAIN hierarchical_walk |-> cursor(hierarchical_walk[i])]

\* dump_vcd up to the loop: cursors, $enddefinitions, #0.
dump_start ==
    /\ phase = "record"
    /\ cursors' = setup_cursors
    /\ out' = <<[ts |-> 0]>>
    /\ current_time' = 0 /\ keep_running' = TRUE /\ pc' = "outer"
    /\ phase' = "dump"
    /\ UNCHANGED <<db, details, path, time, calls, log, next_time, found_match>>

outer_begin ==
    /\ phase = "dump" /\ pc = "outer" /\ keep_running
    /\ keep_running' = FALSE /\ next_time' = Sentinel /\ found_match' = TRUE
    /\ pc' = "inner"
    /\ UNCHANGED <<db, details, path, time, calls, log, phase, cursors, current_time, out>>

\* Mutant: the else-if that lowers next_time is missing.
visit_no_min(s, i) ==
    LET c == s.cursors[i]
        hit == NextTime(c) = current_time
        c2 == IF hit THEN [c EXCEPT !.ptr = @ + 1] ELSE c
    IN [cursors |-> [s.cursors EXCEPT ![i] = c2],
        out |-> IF hit THEN write_vcd(s.out, c) ELSE s.out,
        found |-> s.found \/ hit,
        next |-> s.next,
        keep |-> s.keep \/ NextTime(c2) # NoValue]

\* Mutant: cursor.ptr += 1 outside the if, on every cursor visited.
visit_advance_always(s, i) ==
    LET c == s.cursors[i]
        nt == NextTime(c)
        hit == nt = current_time
        c2 == [c EXCEPT !.ptr = @ + 1]
    IN [cursors |-> [s.cursors EXCEPT ![i] = c2],
        out |-> IF hit THEN write_vcd(s.out, c) ELSE s.out,
        found |-> s.found \/ hit,
        next |-> IF ~hit /\ nt # NoValue /\ nt < s.next THEN nt ELSE s.next,
        keep |-> s.keep \/ NextTime(c2) # NoValue]

\* Mutant: the else of the else-if is dropped, so next_time is lowered by
\* the time of the cursor just written and advanced as well.
visit_min_after_write(s, i) ==
    LET c == s.cursors[i]
        hit == NextTime(c) = current_time
        c2 == IF hit THEN [c EXCEPT !.ptr = @ + 1] ELSE c
        nt == NextTime(c2)
    IN [cursors |-> [s.cursors EXCEPT ![i] = c2],
        out |-> IF hit THEN write_vcd(s.out, c) ELSE s.out,
        found |-> s.found \/ hit,
        next |-> IF nt # NoValue /\ nt < s.next THEN nt ELSE s.next,
        keep |-> s.keep \/ nt # NoValue]

\* One iteration of the for loop over the cursors, on the loop's state s:
\* write and advance a cursor due now, else lower next_time to its time;
\* keep running while it has a next value.
visit(s, i) ==
    LET c == s.cursors[i]
        nt == NextTime(c)
        hit == nt = current_time
        c2 == IF hit THEN [c EXCEPT !.ptr = @ + 1] ELSE c
    IN [cursors |-> [s.cursors EXCEPT ![i] = c2],
        out |-> IF hit THEN write_vcd(s.out, c) ELSE s.out,
        found |-> s.found \/ hit,
        next |-> IF ~hit /\ nt # NoValue /\ nt < s.next THEN nt ELSE s.next,
        keep |-> s.keep \/ NextTime(c2) # NoValue]

\* while found_match { found_match = false; for cursor in &mut cursors {..} }
inner_pass ==
    /\ phase = "dump" /\ pc = "inner" /\ found_match
    /\ LET s == FoldLeft(visit, [cursors |-> cursors, out |-> out, found |-> FALSE,
                                 next |-> next_time, keep |-> keep_running],
                         [i \in DOMAIN cursors |-> i])
       IN /\ cursors' = s.cursors /\ out' = s.out /\ found_match' = s.found
          /\ next_time' = s.next /\ keep_running' = s.keep
    /\ UNCHANGED <<db, details, path, time, calls, log, phase, current_time, pc>>

inner_end ==
    /\ phase = "dump" /\ pc = "inner" /\ ~found_match
    /\ IF next_time # Sentinel
       THEN current_time' = next_time /\ out' = Append(out, [ts |-> next_time])
       ELSE UNCHANGED <<current_time, out>>
    /\ pc' = "outer"
    /\ UNCHANGED <<db, details, path, time, calls, log, phase, cursors, next_time,
                   keep_running, found_match>>

dump_end ==
    /\ phase = "dump" /\ pc = "outer" /\ ~keep_running
    /\ phase' = "done"
    /\ UNCHANGED <<db, details, path, time, calls, log, cursors, current_time,
                   next_time, keep_running, found_match, pc, out>>

-----------------------------------------------------------------------------
Init ==
    /\ db = [h \in {} |-> {}] /\ details = [h \in {} |-> {}]
    /\ path = <<>> /\ time = 0 /\ calls = 0 /\ log = <<>>
    /\ phase = "record"
    /\ cursors = <<>> /\ current_time = 0 /\ next_time = Sentinel
    /\ keep_running = FALSE /\ found_match = FALSE /\ pc = "outer"
    /\ out = <<>>

DumpStep == outer_begin \/ inner_pass \/ inner_end \/ dump_end

Next ==
    \/ \E n \in Names : push_path(n)
    \/ pop_path
    \/ \E t \in 0..TimeLimit : set_time(t)
    \/ \E k \in Keys, v \in Vals : trace(k, v)
    \/ dump_start
    \/ DumpStep

\* dump_vcd is a plain loop on one thread: once called it keeps running.
Spec == Init /\ [][Next]_vars /\ WF_vars(DumpStep)

-----------------------------------------------------------------------------
\* A VCD reader: the value of series h at time t is its last change at a
\* timestamp no later than t.
VcdValueAt(h, t) ==
    LET step(acc, e) ==
          IF "ts" \in DOMAIN e THEN [acc EXCEPT !.cur = e.ts]
          ELSE IF e.hash = h /\ acc.cur <= t THEN [acc EXCEPT !.val = e.v] ELSE acc
    IN FoldLeft(step, [cur |-> 0, val |-> NoValue], out).val

\* What the kernels traced: the value of the last trace() of the signal at a
\* time no later than t.
TracedValueAt(sig, t) ==
    LET step(acc, e) ==
          IF e.path = sig.path /\ e.key = sig.key /\ e.t <= t THEN e.v ELSE acc
    IN FoldLeft(step, NoValue, log)

Signals == {[path |-> e.path, key |-> e.key] : e \in Range(log)}

Timestamps == SelectSeq(out, LAMBDA e : "ts" \in DOMAIN e)

TypeOK ==
    /\ phase \in {"record", "dump", "done", "panic"}
    /\ path \in Seq(Names) /\ Len(path) <= MaxDepth
    /\ time \in 0..TimeLimit
    /\ DOMAIN db = DOMAIN details /\ DOMAIN db \subseteq Hashes
    /\ \A i \in DOMAIN cursors : cursors[i].ptr \in 1..Len(db[cursors[i].hash].values) + 1

\* The dump shows every traced signal under its own path and key, and at
\* every time the value the kernels last traced for it: push_if_changed
\* drops only repeats, and the merge writes every entry under the right
\* timestamp, entries of one time in one go (the found_match re-sweep).
DumpFaithful ==
    phase = "done" =>
        \A sig \in Signals :
            LET h == KeyHashOf(sig.path, sig.key)
            IN /\ details[h] = sig
               /\ \A t \in 0..TimeLimit : VcdValueAt(h, t) = TracedValueAt(sig, t)

\* VCD timestamps strictly increase: the merge never moves current_time
\* back or repeats it.
TimestampsIncrease ==
    \A i \in 1..Len(Timestamps) - 1 : Timestamps[i].ts < Timestamps[i + 1].ts

\* dump_vcd returns: the while keep_running loop ends once every cursor
\* is exhausted.
DumpTerminates == phase = "dump" ~> phase = "done"
=============================================================================
