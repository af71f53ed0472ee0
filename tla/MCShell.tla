------------------------------ MODULE MCShell ------------------------------
(* Small instances of Shell: commands that print numbers and texts. *)
EXTENDS Shell

Number(n, word) == [NoOutput EXCEPT !.kind = "number", !.num = n, !.word = word]
Text(t, word) == [NoOutput EXCEPT !.kind = "text", !.text = t, !.word = word]

MCOutputs ==
    {NoOutput, [NoOutput EXCEPT !.kind = "unable"], [NoOutput EXCEPT !.kind = "blank"],
     Number(-1, ""), Number(0, ""), Number(0, "new"), Number(2, ""), Number(1, "old"),
     Number(1, "new"), Number(2, "new"),
     Text("ok", ""), Text("up", ""), Text("", ""), Text("new", "new"),
     [Number(1, "new") EXCEPT !.rest = <<1, 2, 0, 1>>],
     [Text("ok", "") EXCEPT !.rest = <<0, 2>>],
     [Number(2, "") EXCEPT !.rest = <<4, 1>>],
     [Number(2, "") EXCEPT !.rest = <<1, 1>>, !.whole = FALSE]}

=============================================================================
