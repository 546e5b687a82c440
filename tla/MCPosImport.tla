---- MODULE MCPosImport ----
(* Two backups of a till that holds a sale and a posted return.            *)
EXTENDS PosImport, TLC
mcInvoices == ("s" :> 2)  @@ ("r" :> -1)
mcDiary == <<>>
====
