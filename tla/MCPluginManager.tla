----------------------------- MODULE MCPluginManager -----------------------------
(* A plugin in three shapes in two roots, and a theme. *)
EXTENDS PluginManagerProps, TLC

TwoRoots == <<"managed", "source">>
Plain == [kind |-> "tool", permissions |-> {"net"}, settings |-> TRUE, context |-> FALSE,
          setup |-> "returns", contributions |-> <<"a">>]
Wide == [Plain EXCEPT !.permissions = {"net", "files"}, !.contributions = <<"a", "b">>]
Clashing == [Plain EXCEPT !.settings = FALSE, !.contributions = <<"a", "a">>]
Failing == [Plain EXCEPT !.setup = "raises"]
Theme == [Plain EXCEPT !.kind = "theme_pack", !.permissions = {}, !.contributions = <<>>]
Packages == {Plain, Wide, Clashing, Failing, Theme}
AtFirst == {Plain, Theme}
Interchangeable == Permutations(Threads)
OwnModule == [n \in Names |-> n]
==================================================================================
