------------------------- MODULE SessionPublication -------------------------
(***************************************************************************)
(* What the session store promises to whoever looks at the output root: a  *)
(* session directory appears once, whole, and never changes afterwards; an *)
(* archive appears once, whole, only of a session that is there, and holds *)
(* exactly it. Neither is ever seen half made, whoever crashes.            *)
(***************************************************************************)
EXTENDS Naturals, Sequences

CONSTANT Sessions  \* the contents a sealed directory may have

VARIABLES session, archive  \* <<>> until published

PublicationInit == session = <<>> /\ archive = <<>>

PublishSession ==
  /\ session = <<>>
  /\ session' \in Seq(Sessions) /\ Len(session') = 1
  /\ UNCHANGED archive

PublishArchive ==
  /\ session # <<>> /\ archive = <<>>
  /\ archive' = session
  /\ UNCHANGED session

PublicationSpec ==
  /\ PublicationInit
  /\ [][PublishSession \/ PublishArchive]_<<session, archive>>
=============================================================================
