--------------------------- MODULE MCSequenceMining ---------------------------
(* Instances of SequenceMining for TLC: two groups, the rows of which are  *)
(* short sequences of two items.                                           *)
EXTENDS SequenceMining

ShortRows(n) == UNION {[1 .. k -> {1, 2}] : k \in 0 .. n}
Rows(t) == [k \in DOMAIN t |-> [item |-> t[k], kept |-> TRUE]]
WithoutSecond(r) == [k \in DOMAIN r |-> [r[k] EXCEPT !.kept = k # 2]]

Plain == [distinct |-> FALSE, gaps |-> <<0, 0>>, length |-> <<1, 3>>, num |-> 1, den |-> 1,
          bem |-> <<>>, overwrite |-> TRUE, kills |-> 0]
On(type, items, min, max) == [type |-> type, items |-> items, min |-> min, max |-> max]

Asked(rows, m) == [rows |-> rows, distinct |-> m.distinct, gaps |-> m.gaps, length |-> m.length,
                   num |-> m.num, den |-> m.den, bem |-> m.bem, overwrite |-> m.overwrite, kills |-> m.kills]

Several ==
  {Plain,
   [Plain EXCEPT !.den = 2],
   [Plain EXCEPT !.gaps = <<0, 1>>, !.den = 2],
   [Plain EXCEPT !.gaps = <<1, 2>>, !.den = 2],
   [Plain EXCEPT !.distinct = TRUE, !.den = 2],
   [Plain EXCEPT !.length = <<2, 2>>, !.gaps = <<0, 1>>],
   [Plain EXCEPT !.length = <<1, 1>>],
   [Plain EXCEPT !.gaps = <<0, 1>>, !.den = 2, !.bem = <<On("BEGIN", {1}, 1, Unbounded), On("END", {2}, 1, Unbounded)>>],
   [Plain EXCEPT !.gaps = <<0, 1>>, !.den = 2, !.bem = <<On("MID", {1}, 1, 1)>>],
   [Plain EXCEPT !.gaps = <<0, 1>>, !.bem = <<On("MID", {2}, 2, Unbounded), On("BEGIN", {1, 2}, 1, Unbounded)>>]}

Tables ==
  {[g \in {1, 2} |-> IF g = 1 THEN Rows(t) ELSE Rows(u)] :
     t \in {s \in ShortRows(4) : Len(s) > 2 /\ s[1] = 1}, u \in ShortRows(3)}

(* A row that WHERE drops, and rows long enough for four levels, the       *)
(* program being killed once or twice.                                     *)
Dropped ==
  {Asked([g \in {1, 2} |-> WithoutSecond(Rows(t))], [Plain EXCEPT !.distinct = d, !.gaps = <<0, 1>>]) :
     t \in {s \in ShortRows(4) : Len(s) = 4}, d \in BOOLEAN}
Killed ==
  {Asked([g \in {1, 2} |-> Rows(t)],
         [Plain EXCEPT !.length = <<1, l>>, !.overwrite = o, !.kills = n]) :
     l \in {1, 4}, t \in {<<1, 2, 1, 2>>, <<1, 2, 2, 1>>}, o \in BOOLEAN, n \in {1, 2}}

SeveralJobs == {Asked(t, m) : t \in Tables, m \in Several} \cup Dropped \cup Killed

(* All of them allow what the proof of Exact needs.                        *)
ASSUME OneAllowed == OneIsAllowed
=============================================================================
