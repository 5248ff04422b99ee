------------------------------ MODULE MCTdParam ------------------------------
(* Instances of TdParam for TLC. *)
EXTENDS TdParam

CONSTANTS web, news, music_and_more

\* One user asks for a proxy, another types a text for a number, and the others a
\* command line for the browser with an ampersand, or such an address.
AForm(browser, address, port, type, timeout, threads) ==
    [browser |-> browser, proxy_address |-> address, proxy_port |-> port,
     proxy_type |-> type, timeout |-> timeout, max_threads |-> threads]
Proxied == AForm("browser", "proxy", "8", "SOCKS5", "3", "4")
MCForms == {Proxied,
            AForm("mozilla &", "", "", "HTTP", "9", "many"),
            AForm("a&amp;b", "", "8", "HTTP", "3", "4"),
            AForm("browser", "&x;", "", "HTTP", "9", "4")}
MCReferences == "mozilla &" :> "" @@ "a&amp;b" :> "a&b" @@ "a&b" :> "" @@ "&x;" :> Undeclared

PlainTrees == {web, news}
AllTrees == {web, news, music_and_more}
OneForm == {Proxied}
==============================================================================
