------------------------------- MODULE MCReuse -------------------------------
(***************************************************************************)
(* Two artifacts on a small site: "login" fills and sends the sign-in form, *)
(* "cart" reads a price and picks an option.  "marked" is "entry" with a   *)
(* control selected: no text tells them apart, so they have one key.       *)
(***************************************************************************)
EXTENDS Reuse

Files == {"login", "cart"}
Site == {"entry", "marked", "inside"}
SiteKey == [s \in Site |-> IF s = "marked" THEN "entry" ELSE s]
SourceOfEach == [g \in Segments |-> IF g \in {"send", "enter"} THEN "login" ELSE "cart"]
KindOfEach == [g \in Segments |->
    CASE g = "send" -> "type" [] g = "price" -> "extract" [] g = "pick" -> "select" [] OTHER -> "click"]
Proven == Segments \cap {"enter", "pick"}
PriceOutput == [price |-> "price"]
AppliesOnEach == [g \in Segments |->
    IF g = "price" THEN {"inside"} ELSE {"entry", "marked"}]
LeadsToEach == [g \in Segments |->
    CASE g = "send" -> {"entry"} [] g = "price" -> {} [] OTHER -> Site]

InsideOnly == {"inside"}
LoginPrefix == {"login"}
=============================================================================
