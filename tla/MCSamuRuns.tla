---------------------------- MODULE MCSamuRuns -----------------------------
(* A generated header gen and an object obj that may include gen and hdr. *)
EXTENDS SamuRuns, TLC

CONSTANTS src, tab, hdr, gen, obj, mkgen, cc

McOutputs == <<obj, gen>>
McIn == (mkgen :> {tab}) @@ (cc :> {src})
\* the object is made from gen, and no command need find anything
McSource == (mkgen :> {tab}) @@ (cc :> {gen})
McNone == (mkgen :> {}) @@ (cc :> {})
McOneHeader == (mkgen :> {hdr}) @@ (cc :> {hdr})
McOrderOnly == (mkgen :> {}) @@ (cc :> {gen})
McOut == (mkgen :> <<gen>>) @@ (cc :> <<obj>>)
McHeaders == (mkgen :> {hdr}) @@ (cc :> {gen, hdr})
McPrefixes == {<<gen, obj>>}
=============================================================================
