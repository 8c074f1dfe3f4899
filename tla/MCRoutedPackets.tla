--------------------------- MODULE MCRoutedPackets ---------------------------
(* RoutedPackets on an instance with a short and a long route.             *)
EXTENDS RoutedPackets

MCHops == {0, 1}
MCInfinity == 9
=============================================================================
