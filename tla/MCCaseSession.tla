--------------------------- MODULE MCCaseSession ---------------------------
(***************************************************************************)
(* An instance of CaseSession for TLC: two cases on the same content, one  *)
(* of a member and one of a guest, in a module without anchors, and two    *)
(* cases in a module that is recognised by its page.                       *)
(***************************************************************************)
EXTENDS CaseSession, TLC

CONSTANTS c1, c2, c3, c4, member, guest, comic, default, player, mine

MCLoginOf == c1 :> member @@ c2 :> guest @@ c3 :> member @@ c4 :> member
MCEntryOf == c1 :> comic @@ c2 :> comic @@ c3 :> default @@ c4 :> default
MCModuleOf == c1 :> player @@ c2 :> player @@ c3 :> mine @@ c4 :> mine
MCModeOf == c1 :> "hybrid" @@ c2 :> "agent" @@ c3 :> "hybrid" @@ c4 :> "deterministic"
=============================================================================
