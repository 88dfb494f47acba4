------------------------------ MODULE MCWebShare ------------------------------
(* WebShare with two connections: two uploads that race for a name, two    *)
(* downloads that exceed a quota of one, a reply that holds a mutex while  *)
(* the host decides.  The safety properties are proved for any number.     *)
EXTENDS WebShare

TwoConns == {"c1", "c2"}
=============================================================================
