----------------------------- MODULE MCTagImport -----------------------------
(***************************************************************************)
(* An instance of TagImport: trees that differ in depth and in whether     *)
(* tags have an external_id, and files that create, rename, move, swap and *)
(* leave out tags, list a child before its parent, and make a cycle.  z is *)
(* the primary key 4, an external_id in the third tree beside the tag 4.   *)
(***************************************************************************)
EXTENDS TagImport

CONSTANTS va, vb, vc, vd, x, y, z, w1, w2

MCValues == {va, vb, vc, vd}
MCExternalIds == {x, y, z}
MCWorkers == {w1, w2}

MCInitialTags ==
    { << Row(va, None, None), Row(vb, 1, y), Row(vc, 2, x) >>,
      << Row(va, None, x), Row(vb, 1, None), Row(vc, 2, y), Row(vd, 3, z) >>,
      << Row(va, None, y), Row(vb, 1, z), Row(vc, 4, x), Row(vd, 1, None) >> }

MCFiles ==
    { << Item(x, va, None), Item(y, vb, x) >>,
      << Item(y, vb, x), Item(x, va, None) >>,
      << Item(x, va, y), Item(y, vb, x) >>,
      << Item(x, vb, None) >>,
      << Item(z, vb, None), Item(x, vc, None) >>,
      << Item(x, va, None), Item(x, vb, None) >>,
      << Item(y, vc, None), Item(z, va, y) >>,
      << Item(y, vc, None), Item(x, va, y) >> }

=============================================================================
