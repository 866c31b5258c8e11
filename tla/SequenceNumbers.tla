--------------------------- MODULE SequenceNumbers ---------------------------
(***************************************************************************)
(* modules/include/module_common_types_public.h: sequence numbers that     *)
(* wrap at SeqSpan (2^16 in the code), their order and the class that      *)
(* unwraps them.                                                           *)
(***************************************************************************)
EXTENDS Integers

CONSTANTS SeqSpan,   \* how many sequence numbers there are
          None       \* an absl::optional without a value

ASSUME SpanAssumption ==
  SeqSpan \in Nat \ {0} /\ SeqSpan % 2 = 0 /\ None \notin Int

Half == SeqSpan \div 2

(* Numbers that are exactly half the span apart are ordered by value. *)
IsNewer(value, prev) ==
  value # prev /\ (value - prev = Half \/ (value - prev) % SeqSpan < Half)

(* Mutant: a backward step over the wrap is taken for a forward one. *)
MutUnwrap(last, value) ==
  IF last = None THEN value
  ELSE last + ((value - last) % SeqSpan)

(* UnwrapWithoutUpdate: the unwrapped number nearest to the last one, but  *)
(* never a negative one.                                                   *)
Unwrap(last, value) ==
  IF last = None THEN value
  ELSE LET delta == value - (last % SeqSpan)
           newer == IsNewer(value, last % SeqSpan)
       IN  last + (IF newer /\ delta < 0 THEN delta + SeqSpan
                   ELSE IF ~newer /\ delta > 0 /\ last + delta >= SeqSpan
                     THEN delta - SeqSpan
                   ELSE delta)

(* std::map::insert, for the histories whose keys are unwrapped numbers: a *)
(* number that is there already keeps its packet.                          *)
Inserted(h, s, packet) ==
  [t \in DOMAIN h \cup {s} |-> IF t \in DOMAIN h THEN h[t] ELSE packet]
=============================================================================
