---------------------------- MODULE MCComponents ----------------------------
(***************************************************************************)
(* An instance of Components for TLC: two sessions, files with the same    *)
(* bytes under two media types.                                            *)
(***************************************************************************)
EXTENDS Components

CONSTANTS key1, key2, html, text, d1

MCKeys == {key1, key2}
MCGuessType == [k \in Keys |-> IF k = key1 THEN html ELSE text]

Call(replace, bytes, force, ignore) ==
    [replace |-> replace, bytes |-> bytes, forceVersionNum |-> force,
     ignorePreviousContent |-> ignore]

On(k, value) == [x \in {k} |-> value]

\* New files, two at once, a Content stored before, a deletion and a forced number.
MCCalls ==
    {Call(On(key1, d1), {key1}, None, FALSE),
     Call([k \in Keys |-> d1], Keys, None, FALSE),
     Call(On(key2, <<text, d1>>), {}, None, FALSE),
     Call(On(key1, None), {}, None, FALSE),
     Call(On(key2, d1), {key2}, 2, TRUE)}

=============================================================================
