------------------------------ MODULE RecencyList -----------------------------
(***************************************************************************)
(* A list without duplicates, what was used last first.                    *)
(***************************************************************************)
EXTENDS Naturals, SequencesExt

\* Where x is in the list; just behind its end if it is not in it.
Position(list, x) ==
    IF x \in ToSet(list) THEN CHOOSE i \in DOMAIN list : list[i] = x ELSE Len(list) + 1

\* x is used: it leaves its place, if it has one, and is first.
ToFront(list, x) == <<x>> \o RemoveAt(list, Position(list, x))

=============================================================================
