----------------------------- MODULE MCAreRoutes -----------------------------
(***************************************************************************)
(* A small instance of AreRoutes: paths of up to two segments, with both   *)
(* spellings of a parameter, a repeated name, doubled and trailing slashes,*)
(* a malformed segment, a parameter without a name, and one of an unknown  *)
(* type.                                                                   *)
(***************************************************************************)
EXTENDS AreRoutes

Segments == {Empty, Literal("u"), Colon("id"), Braced("id", "UserId"), Braced("name", "none")}

Absolute == {<<Empty, s>> : s \in Segments} \cup {<<Empty, s, t>> : s, t \in Segments}

MCPaths == Absolute \cup {<<Literal("u")>>, <<Empty, Malformed("{id")>>,
                        <<Empty, Colon("")>>, <<Empty, Braced("id", "Unknown")>>}

Texts == {"", "u", "v"}
MCRequested == {<<"", s>> : s \in Texts} \cup {<<"", s, t>> : s, t \in Texts}

=============================================================================
