--------------------------- MODULE MCRuntimeDuplex ---------------------------
(* Instances of RuntimeDuplex for TLC: one kind of traffic per session. *)
EXTENDS RuntimeDuplex

CONSTANTS n1, s1, t1, r1, c1

OneStream == {<<"plugin", 1>>}

Each(n) == [e \in Ends |-> n]

Kinds ==
    {[role |-> "view", ids |-> Each(5), methods |-> ProviderMethods \cup {"context.update"}],
     [role |-> "view", ids |-> Each(3), methods |-> DomRequests \cup {"dom.revision"}],
     [role |-> "overlay", ids |-> Each(3),
      methods |-> {"command.execute", "event.subscribe", "event.unsubscribe", "event.deliver"}],
     [role |-> "file-viewer", ids |-> Each(3), methods |-> {"resource.open", "resource.release"}],
     [role |-> "controller", ids |-> Each(1), methods |-> Streaming],
     [role |-> "controller", ids |-> Each(3),
      methods |-> PluginCommand \cup {"plugin-command.invoke", "runtime.fault"}],
     [role |-> "controller", ids |-> [host |-> 2, plugin |-> 1],
      methods |-> {"plugin-command.invoke", "plugin-command.cancel", "plugin-command.result",
                   "command.execute"}],
     [role |-> "view", ids |-> [host |-> 3, plugin |-> 1],
      methods |-> {"dom.query", "dom.revision", "command.execute"}]}
=============================================================================
