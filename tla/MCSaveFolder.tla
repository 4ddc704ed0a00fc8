---------------------------- MODULE MCSaveFolder ----------------------------
(***************************************************************************)
(* Model checking SaveFolder: the names the rows may have.  With names     *)
(* that have a dot SavedWhole fails: a.opt and a.freq are the same files.  *)
(***************************************************************************)
EXTENDS LogViewer

NewName(stem, ext, numbers) == [stem |-> stem, ext |-> ext, numbers |-> numbers]

PlainNames == {NewName("a", "", <<>>), NewName("b", "", <<>>)}
DottedNames == {NewName("a", "opt", <<>>), NewName("a", "freq", <<>>)}
=============================================================================
