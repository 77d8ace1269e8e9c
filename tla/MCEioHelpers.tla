---------------------------- MODULE MCEioHelpers ----------------------------
(***************************************************************************)
(* Instances of EioHelpers for TLC.                                        *)
(***************************************************************************)
EXTENDS EioHelpers

Entry(id, inode, type, dots, len) ==
  [id |-> id, inode |-> inode, type |-> type, dots |-> dots, len |-> len]

\* A directory with types readdir does not know, in which the scores differ,
\* with two links of one file; and one with enough subdirectories for the
\* radix sort.
Mixed == { Entry(0, 2, "dir",     "self",  1),
           Entry(1, 5, "unknown", "none",  1),
           Entry(2, 3, "unknown", "lead",  3),
           Entry(3, 6, "dir",     "none",  2),
           Entry(4, 1, "unknown", "inner", 3),
           Entry(5, 3, "other",   "none",  2) }
Known == { Entry(0, 2, "dir",   "self",  1),
           Entry(1, 6, "dir",   "none",  1),
           Entry(2, 3, "dir",   "lead",  2),
           Entry(3, 5, "dir",   "none",  1),
           Entry(4, 1, "dir",   "inner", 3),
           Entry(5, 7, "other", "none",  1),
           Entry(6, 4, "dir",   "none",  1) }
SomeDirectories == {Mixed, Known}

SomeFlags == {{}, {"dents"}, {"dents", "dirsFirst"}, {"dents", "statOrder"},
              {"dents", "dirsFirst", "statOrder"}, {"dirsFirst"}, {"custom1"}}

\* Linux, Darwin, and a system whose bits are in another order
SomeSystems == {<<1, 2, 4>>, <<1, 2, 16>>, <<4, 2, 1>>}
=============================================================================
