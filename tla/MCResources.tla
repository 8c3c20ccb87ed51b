---------------------------- MODULE MCResources ----------------------------
(* TLC instance of Resources: two requests upload one document of up to    *)
(* three paragraphs, lines or pages.                                       *)
EXTENDS Resources

MaxBody == 3
Bodies(marks) == UNION {[1 .. n -> marks] : n \in 0 .. MaxBody}

SmallContents ==
    [kind : {"docx"}, body : Bodies({"H", "T"})]
        \cup [kind : {"markdown"}, body : Bodies({"H", "T"})]
        \cup [kind : {"pdf"}, body : [1 .. 2 -> {"T", "E"}]]
        \cup {Bundle(n) : n \in 1 .. MaxBody}
=============================================================================
