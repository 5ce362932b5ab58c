-------------------------- MODULE MCSelectionTransfer --------------------------
(* A text that fits in one property and an image that takes two parts.       *)
EXTENDS SelectionTransfer

MCParts == [t \in Targets |-> IF t = "text" THEN 1 ELSE 2]

Ask(t, p) == [target |-> t, property |-> p]
MCForeignPairs ==
  {<<Ask("image", "CLIP_TEMPORARY")>>,
   <<Ask("image", "_QT_SELECTION"), Ask("image", "other")>>,
   <<Ask("text", "other"), Ask("image", "CLIP_TEMPORARY")>>}

MCMixes == {[own |-> 2, foreign |-> 0], [own |-> 0, foreign |-> 1]}
=============================================================================
