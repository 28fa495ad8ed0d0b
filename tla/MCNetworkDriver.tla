-------------------------- MODULE MCNetworkDriver --------------------------
(* An instance of NetworkDriver for TLC: a wall port with a static address *)
(* and one radio that runs a hotspot only on its client's channel, which   *)
(* may be one no access point may start on. The two documents address the  *)
(* port and rank the network differently. The daemon starts with nothing   *)
(* up, or with all a daemon before it left up.                             *)
EXTENDS NetworkDriver

Port == [kind |-> "wired", on |-> "eth0", ssid |-> "none", hidden |-> FALSE,
         enabled |-> TRUE, body |-> 2]
Clinic == [kind |-> "wireless", on |-> "any", ssid |-> "clinic", hidden |-> FALSE,
           enabled |-> TRUE, body |-> 1]
Spot == [enabled |-> TRUE, on |-> "any", chooses |-> FALSE]

OneWired == <<"eth0">>
OneRadio == <<"wlan0">>
OneShared == [r \in {"wlan0"} |-> "shared"]
Bodies == << [address |-> "lease", verify |-> TRUE, link |-> 1],
             [address |-> "static", verify |-> TRUE, link |-> 2],
             [address |-> "static", verify |-> TRUE, link |-> 3],
             [address |-> "lease", verify |-> TRUE, link |-> 4] >>

TwoDocuments ==
    {[attachments |-> <<Clinic, Port>>, hotspot |-> Spot],
     [attachments |-> <<[Clinic EXCEPT !.enabled = FALSE, !.body = 4], [Port EXCEPT !.body = 3], Clinic>>,
      hotspot |-> NoHotspot]}
OneDomain == [doc \in TwoDocuments |-> "NZ"]

Nothing == [links |-> [i \in Interfaces |-> {}], carrier |-> {}, heard |-> [r \in RadioSet |-> {}]]
Everything == [links |-> [i \in Interfaces |-> Sought(i)], carrier |-> WiredSet,
               heard |-> [r \in RadioSet |-> Ssids]]
UpOrNot == {Nothing, Everything}
=============================================================================
