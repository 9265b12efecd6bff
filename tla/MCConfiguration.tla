--------------------------- MODULE MCConfiguration ----------------------------
(* Model-checking instance of Configuration: a statement with up to two       *)
(* attributes and a nested node, followed by another statement.               *)
EXTENDS Configuration

Preds == {"p", "q", "r", "none"}
Truths == {t \in [Preds -> BOOLEAN] : t["none"]}

Attrs == {Cfg("p"), Cfg("q"), CfgAttr("p", <<Other>>), CfgAttr("p", <<Cfg("q"), Other>>),
          CfgAttr("q", <<CfgAttr("p", <<Cfg("r")>>), Cfg("p")>>), Other}
AttrSeqs == {<<>>} \cup {<<a>> : a \in Attrs} \cup {<<a, b>> : a, b \in Attrs}
Bodies == {<<>>} \cup {<<Node(k, <<a>>, <<>>)>> : k \in {"stmt", "expr"}, a \in Attrs}
          \cup {<<Node("expr", <<a>>, <<Node("stmt", <<Cfg("r")>>, <<>>)>>)>> : a \in Attrs}
          \cup {<<Node("stmt", <<Cfg("r")>>, <<>>)>>}
Lasts == {<<>>} \cup {<<Node("stmt", <<a>>, <<>>)>> : a \in Attrs}

Blocks == {<<Node("stmt", s, b)>> \o l : s \in AttrSeqs, b \in Bodies, l \in Lasts}
===============================================================================
