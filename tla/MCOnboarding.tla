---------------------------- MODULE MCOnboarding ----------------------------
(* Every supported root with each way of answering that the probes tell    *)
(* apart, some that are not supported, and for the slot every end device   *)
(* with a readable variant, an unreadable one and one no map knows.        *)
EXTENDS Onboarding

Nothing ==
  [kind |-> "other", manufacturer |-> None, order |-> None, variant |-> None,
   firmware |-> FALSE, slots |-> FALSE, units |-> {}, maker |-> None,
   marker |-> None, ratings |-> 0, version |-> None]

Gateway(variant, slots) ==
  [Nothing EXCEPT !.kind = "powercenter", !.manufacturer = Siemens,
     !.variant = variant, !.firmware = TRUE, !.slots = slots]

ChargerBox(units, version, marker) ==
  [Nothing EXCEPT !.kind = "versicharge", !.units = units, !.version = version,
     !.maker = Maker, !.marker = marker, !.ratings = 3]

MCBoxes ==
  {Gateway(None, TRUE), Gateway(0, TRUE), Gateway(14, TRUE), Gateway(14, FALSE),
   Gateway(16, FALSE)}
  \cup {[Nothing EXCEPT !.kind = "pac2200", !.order = o] : o \in {"7KM2200", "empty"}}
  \cup {ChargerBox({1}, 134, Marker), ChargerBox({2}, 135, None),
        ChargerBox({1, 2}, 136, None), ChargerBox({5}, 135, Marker)}
  \cup {[Gateway(v, FALSE) EXCEPT !.kind = "other"] : v \in {17, None}}
  \cup {[Nothing EXCEPT !.order = "7KM3120"],
        [Nothing EXCEPT !.units = {1}, !.maker = "other", !.ratings = 3, !.version = 136],
        [Nothing EXCEPT !.units = {1}, !.maker = Maker, !.ratings = 1,
                        !.version = 136]}

EndDevices == 1 .. 11 \cup {18, 19}

(* The hints in the article number of a device of each variant.            *)
Article(v) ==
  LET own == {h \in DOMAIN ArticleHints : ArticleHints[h] = v}
  IN CASE v = 7         -> own \cup {"5SL6"}
       [] v \in {5, 6}  -> own \cup {"5ST3"}
       [] OTHER         -> own

MCDevices ==
  {[true |-> v, variant |-> v, article |-> Article(v)] : v \in EndDevices} \cup
  {[true |-> v, variant |-> None, article |-> Article(v)] : v \in EndDevices} \cup
  {[true |-> v, variant |-> r, article |-> {}] : v \in {3, 11}, r \in {0, 12}}
=============================================================================
