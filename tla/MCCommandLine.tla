--------------------------- MODULE MCCommandLine ---------------------------
(***************************************************************************)
(* Model checking CommandLine: one process lists the queue or removes a    *)
(* job, another one is given a command line of any kind.                   *)
(***************************************************************************)
EXTENDS CommandLine, TLC

CONSTANTS p1, p2

Plain(cmd, args) == [help |-> FALSE, gui |-> FALSE, cmd |-> cmd, args |-> args]
WithGui(line) == [line EXCEPT !.gui = TRUE]
WithHelp(line) == [line EXCEPT !.help = TRUE]

(* The number IntSize is cut to 0, and names job 0 once more.              *)
Removing == Plain("remove", <<Number(0), Neither, Number(IntSize)>>)

SomeLines ==
  p1 :> {WithGui(Plain("list", <<>>)), Removing, Plain("none", <<InputFile>>)} @@
  p2 :> {Plain("add", <<InputFile, Neither>>), Removing,
         Plain("pause", <<Number(0), Number(5)>>), Plain("resume", <<Number(1)>>),
         Plain("clear", <<Neither>>), Plain("pause-all", <<>>),
         Plain("resume-all", <<>>), WithHelp(Plain("list", <<>>))}
=============================================================================
