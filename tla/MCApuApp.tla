------------------------------ MODULE MCApuApp ------------------------------
(* What the host sends: commands that only need an answer, as many at once  *)
(* as the ring holds answers and more; those of an accelerator, sent with   *)
(* care or without; those of a firmware update.                             *)
EXTENDS ApuApp
CONSTANTS f1, f2

F(f) == [f |-> f]
Status(rae, large) == [f |-> "Status", rae |-> rae, large |-> large]
SendFw(fw) == [f |-> "SendFw", fw |-> fw]
Download(off, words) == [f |-> "Download", off |-> off, words |-> words]

Answers == {F("Identify"), F("Nothing"), Status(TRUE, FALSE), Status(FALSE, TRUE)}
Asked == Status(FALSE, FALSE)
D1 == Download(0, <<1, 1>>)
D2 == Download(0, <<2, 2, 2, 2, 2>>)  \* more than the device holds

Careless == {F("SetFw"), F("Start"), F("Reset"), F("ReadFw"), F("WriteLba")}

Work(script, out, resets) == [script |-> script, out |-> out, resets |-> resets]

MCWorkloads ==
  {Work(<<Answers, Answers, Answers, Answers>>, 2, FALSE),
   Work(<<Answers, Answers, Answers, Answers>>, 3, FALSE),
   Work(<<{SendFw(f1)}, {F("SetFw")}, {F("ReadLba")}, {F("WriteLba")}, {F("Start")},
          {Asked, SendFw(f2)}, {Asked}, {F("Reset")}, {F("SetFw")}, {F("WriteLba")},
          {F("Start")}, {Asked}>>, 1, TRUE),
   Work(<<{SendFw(f1)}, {F("SetFw")}, {F("Start")}, Careless, {F("Start"), F("Reset")}>>,
        1, FALSE),
   Work(<<{D1}, {F("Commit")}, {D2, F("Commit")}, {F("Commit")}, {D1, F("Commit")}>>, 2, FALSE)}
FactoryImage == <<9, 9, 9>>
=============================================================================
