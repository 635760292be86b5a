---------------------------- MODULE MCPropertyApps ----------------------------
(* Small graphs over one and two fragments. *)
EXTENDS PropertyApps

V3(f, l) == <<[oid |-> 1, fid |-> f[1], label |-> l[1]],
              [oid |-> 2, fid |-> f[2], label |-> l[2]],
              [oid |-> 3, fid |-> f[3], label |-> l[3]]>>

\* One fragment; two fragments with a label each; two labels in one fragment
\* and one of them in the other; and two fragments with one label, whose inner
\* and outer vertices share slots.
SomePlacements == {V3(<<0, 0, 0>>, <<0, 0, 1>>), V3(<<0, 1, 1>>, <<0, 1, 1>>),
                   V3(<<1, 0, 0>>, <<0, 1, 1>>), V3(<<0, 1, 0>>, <<0, 0, 0>>)}
OneFragment == {V3(<<0, 0, 0>>, <<0, 0, 0>>)}
OneLabel == {V3(<<0, 1, 0>>, <<0, 0, 0>>)}
=============================================================================
