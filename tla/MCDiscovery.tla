---------------------------- MODULE MCDiscovery ----------------------------
(***************************************************************************)
(* Small sites for Discovery.  "home" and "open" share an address; "home"  *)
(* and "busy" differ only in a dialog, so they are one page to the pruning *)
(* of abandoned steps.                                                     *)
(***************************************************************************)
EXTENDS Discovery

Sites == {"home", "busy", "open", "away"}
SiteUrl == [s \in Sites |-> IF s = "away" THEN "b" ELSE "a"]
SitePage == [s \in Sites |-> IF s = "busy" THEN "home" ELSE s]
WithDialog == {"busy"}
Pages == Sites \ WithDialog

\* A click that may stay on the page, raise a dialog or leave, a risky click, a selection and a forbidden step back.
ClickActions == {"go", "buy", "pick", "back"}
ClickKind == [go |-> "click", buy |-> "click", pick |-> "select", back |-> "back"]
ClickVerdict == [go |-> "allow", buy |-> "confirm", pick |-> "allow", back |-> "deny"]
ClickTo == [go |-> {"home", "busy", "away"}, buy |-> {"open"}, pick |-> {"open"}, back |-> {"home"}]

OneValue == {"price"}
PriceIsList == [price |-> FALSE]
PriceMax == [price |-> 1]
PriceMin == [price |-> 0]

\* Two lists of two values that belong together, one read as a column, one also value by value, a page turn, and a control and a
\* column that only a screenshot shows.
ListActions == {"titles", "all", "year", "next", "spot", "glance"}
ListKind == [titles |-> "extract_many", all |-> "extract_many", year |-> "extract", next |-> "click",
             spot |-> "click", glance |-> "extract_many"]
ListVerdict == [a \in ListActions |-> "allow"]
ListTo == [titles |-> {}, all |-> {}, year |-> {}, next |-> {"home", "away"}, spot |-> {"open"}, glance |-> {}]
ListOutput == [titles |-> "titles", all |-> "titles", year |-> "years", glance |-> "years"]
ListAdds == [titles |-> 2, all |-> 3, year |-> 1, glance |-> 2]
ListAppends == {"year"}
ListVisual == {"spot", "glance"}
Lists == {"titles", "years"}
BothLists == [o \in Lists |-> TRUE]
ListMax == [o \in Lists |-> 2]

NoOutput == <<>>
Nothing == {}
=============================================================================
