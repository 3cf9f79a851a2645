---------------------------- MODULE MCObjectTags ----------------------------
(***************************************************************************)
(* An instance of ObjectTags: two objects, a closed taxonomy that starts   *)
(* with two tags, one taxonomy of free text, and files that swap the tags' *)
(* values or replace one of them.                                          *)
(***************************************************************************)
EXTENDS ObjectTags

CONSTANTS o1, o2, va, vb, ida, idb, s1

MCObjects == {o1, o2}
MCValues == {va, vb}
MCExternalIds == {ida, idb}
MCSessions == {s1}

MCInitialTags == { << Row(va, None, ida), Row(vb, None, None) >> }

MCRequests == { << >>, << va >>, << vb, va >> }

MCFiles == { << Item(ida, vb, None) >>, << Item(idb, va, None), Item(ida, vb, None) >> }

MCSingleTag == {FreeText}

MCSymmetry == Permutations(MCObjects)

=============================================================================
