----------------------------- MODULE MCAttachments -----------------------------
EXTENDS Attachments, TLC

Symmetry == Permutations(Workers) \cup Permutations(Slots)
=============================================================================
