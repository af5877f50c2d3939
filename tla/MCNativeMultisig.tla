--------------------------- MODULE MCNativeMultisig ---------------------------
(* Instances of NativeMultisig for TLC. *)
EXTENDS NativeMultisig, TLC

MemberSymmetry == Permutations(Members)
ContentSymmetry == Permutations(Contents)
RequestSymmetry == Permutations(Requests)
ValueSymmetry == Permutations(Values)
RenderingSymmetry == Permutations(Renderings)

SigningSymmetry ==
    MemberSymmetry \cup RequestSymmetry \cup ValueSymmetry \cup RenderingSymmetry
SettlingSymmetry == RequestSymmetry \cup ContentSymmetry
===============================================================================
