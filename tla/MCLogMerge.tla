------------------------------ MODULE MCLogMerge ------------------------------
(* A directory of two types, the first with a rotated file, and a file     *)
(* that is no log file.                                                    *)
EXTENDS LogMerge

All == {"time", "process", "pid", "message"}
Body(form, at, fields) ==
  [form |-> form, at |-> at, fields |-> fields, skip |-> FALSE]

Dated == Body("ymd", 112, All)
Early == Body("abs", 20, All)
Jumped == Body("abs", 150, All)
December == Body("mon", 90, All)
January == Body("md", 11, {"time", "message"})
Plain == Body("none", 0, {"message"})
Skipped == [Plain EXCEPT !.skip = TRUE]

Base1 == [type |-> 1, rot |-> -1]
Rotated1 == [type |-> 1, rot |-> 1]
Base2 == [type |-> 2, rot |-> -1]
Other == [type |-> 2, rot |-> 7]

MCFileNames == {Base1, Rotated1, Base2, Other}
MCUnlisted == {Other}
MCRuleFiles == {Base1, Rotated1}

MCTexts == [f \in MCFileNames |->
  CASE f = Base1 ->
         {<<>>, <<Skipped, CR, NL, Jumped>>, <<Plain, NL, NL>>,
          <<Dated, NL, Jumped, NL>>, <<Dated, NL, Dated, NL>>,
          <<December, NL, January, NL>>, <<January, NL, Plain>>,
          <<December, NL, Dated, CR, NL>>}
    [] f = Rotated1 -> {<<>>, <<December, NL>>, <<Dated, CR, NL, CR, NL>>}
    [] f = Base2 -> {<<>>, <<Plain, NL, January, NL, Dated>>,
                     <<Early, NL, Early, NL, Dated>>,
                     <<Jumped, NL, Dated, NL, December, NL>>}
    [] OTHER -> {<<Plain, NL>>}]

Opt(mode, threshold, cap) ==
  [mode |-> mode, threshold |-> threshold, cap |-> cap]

MCOptions ==
  {Opt("session", 2, 9), Opt("session", 3, 1), Opt("session", 5, 9),
   Opt("warmup", 3, 9), Opt("plain", 1, 9), Opt("reverse", 2, 9)}

MCBreakable == {Base1}

=============================================================================
