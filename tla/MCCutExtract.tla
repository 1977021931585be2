---------------------------- MODULE MCCutExtract ----------------------------
(***************************************************************************)
(* An instance of CutExtract: a page and a form that use the same two      *)
(* names for different things.                                             *)
(***************************************************************************)
EXTENDS CutExtract

MCLower == [n \in {"CutContour", "cutcontour", "Black"} |->
              IF n = "Black" THEN "black" ELSE "cutcontour"]

Separation(n) == [family |-> "Separation", names |-> {n}]
DeviceN(names) == [family |-> "DeviceN", names |-> names]
Indexed == [family |-> "Indexed", names |-> {"CutContour"}]

(* The page's k1 is the cut colour, its k2 has the name in another family; *)
(* in the form k2 is the cut colour, with another, and in lower case.      *)
MCColorSpace ==
  [page |-> [k1 |-> Separation("CutContour"), k2 |-> Indexed],
   form |-> [k1 |-> Separation("Black"),
             k2 |-> DeviceN({"Black", "cutcontour"})]]

None == [group |-> "none", type |-> "none"]
Step(type) == [group |-> "Structural", type |-> type]

(* Group and type in one dictionary, in its metadata, or torn apart.       *)
Art == [own |-> None, metadata |-> None]
Cutting == [own |-> Step("Cutting"), metadata |-> None]
Partial == [own |-> None, metadata |-> Step("PartialCutting")]
Torn == [own |-> Step("none"),
         metadata |-> [group |-> "none", type |-> "Cutting"]]

Layer(ocg) == [own |-> ocg.own, metadata |-> ocg.metadata, ocgs |-> {}]
Membership(ocgs) == [own |-> None, metadata |-> None, ocgs |-> ocgs]

MCProperties ==
  [page |-> [k1 |-> Layer(Torn), k2 |-> Membership({Art, Cutting})],
   form |-> [k1 |-> Layer(Partial), k2 |-> Layer(Art)]]

=============================================================================
