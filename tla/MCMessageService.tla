-------------------------- MODULE MCMessageService --------------------------
(* Two deliveries, of two events of one conversation or twice of the same.  *)
EXTENDS MessageService

MCServices ==
    {[path |-> "slack", mode |-> "action", reply |-> TRUE],
     [path |-> "telegram", mode |-> "chat", reply |-> TRUE],
     [path |-> "webhook", mode |-> "action", reply |-> TRUE]}
=============================================================================
