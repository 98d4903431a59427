-------------------------- MODULE MCBrokerLifecycle --------------------------
(* Instances of BrokerLifecycle for TLC differ by their constants only.     *)
EXTENDS BrokerLifecycle
=============================================================================
