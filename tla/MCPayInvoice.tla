---------------------------- MODULE MCPayInvoice ----------------------------
(* Amounts of 5 bits with 3 millisatoshis to the satoshi, so that 11         *)
(* satoshis wrap to one millisatoshi; time locks of 3 bits.                  *)
EXTENDS PayInvoice

MCAlias == [c \in {"a"} |-> "alias"]

Usable(balance) ==
    [active |-> TRUE, peerPublic |-> TRUE, policy |-> TRUE, alias |-> TRUE, balance |-> balance]

MCChanStates ==
    {Usable(1), Usable(3), [Usable(3) EXCEPT !.active = FALSE],
     [Usable(1) EXCEPT !.peerPublic = FALSE, !.alias = FALSE]}

Plain ==
    [preimage |-> {}, hash |-> {}, sat |-> 0, msat |-> 1, malformed |-> FALSE, expiry |-> 0,
     cltv |-> 0, private |-> FALSE, amp |-> FALSE, mpp |-> TRUE, hodl |-> FALSE,
     routeHints |-> << >>]

Private == [Plain EXCEPT !.private = TRUE]

MCAddRequests ==
    {[Private EXCEPT !.sat = 1, !.msat = 0],
     [Private EXCEPT !.msat = 0, !.routeHints = <<<<"x", "c">>, <<"alias">>>>, !.preimage = {"h"}],
     [Plain EXCEPT !.routeHints = <<<<"c">>>>, !.hash = {"h"}, !.hodl = TRUE, !.cltv = 7],
     [Plain EXCEPT !.sat = 11, !.msat = 0, !.amp = TRUE, !.expiry = 1],
     [Plain EXCEPT !.msat = 15],
     [Plain EXCEPT !.cltv = 1],
     [Plain EXCEPT !.malformed = TRUE]}

MCOldInvoices ==
    {[state |-> "open", value |-> 2, hints |-> << >>, expires |-> 1, cltv |-> 4, amp |-> FALSE,
      mpp |-> FALSE, hodl |-> TRUE]}

Send ==
    [node |-> "other", timePref |-> 0, outgoing |-> {}, outgoings |-> {}, malformed |-> FALSE,
     cltvLimit |-> 0, maxParts |-> 0, feeSat |-> 0, feeMsat |-> 1, timeout |-> 1, sat |-> 0,
     msat |-> 0, invoice |-> {}, dest |-> {}, hash |-> {}, finalCltv |-> 0, addr |-> {},
     amp |-> FALSE, features |-> {}, allowSelf |-> FALSE, routeHints |-> << >>]

ByFields == [Send EXCEPT !.dest = {"payee"}, !.hash = {"h"}, !.msat = 1]

MCSendRequests ==
    {[Send EXCEPT !.invoice = {"h"}, !.msat = 2, !.routeHints = <<<<"y">>>>],
     [Send EXCEPT !.invoice = {"h"}, !.cltvLimit = 8],
     [Send EXCEPT !.invoice = {"r"}, !.amp = TRUE],
     [Send EXCEPT !.invoice = {"r"}, !.node = "payee"],
     [Send EXCEPT !.invoice = {"r"}, !.hash = {"r"}],
     [ByFields EXCEPT !.finalCltv = 9, !.feeSat = 11, !.feeMsat = 0],
     [ByFields EXCEPT !.cltvLimit = 5, !.finalCltv = 3],
     [ByFields EXCEPT !.amp = TRUE, !.features = {{"amp", "payment_addr"}}, !.addr = {"r"},
                      !.finalCltv = -3],
     [ByFields EXCEPT !.amp = TRUE, !.features = {{"mpp"}}],
     [ByFields EXCEPT !.node = "payee", !.allowSelf = TRUE],
     [ByFields EXCEPT !.timeout = 0],
     [ByFields EXCEPT !.cltvLimit = 21]}

Query ==
    [node |-> "other", source |-> {}, malformed |-> FALSE, dest |-> {"payee"}, sat |-> 0,
     msat |-> 1, feeLimit |-> [kind |-> "none"], cltvLimit |-> 0, finalCltv |-> 0,
     blinded |-> << >>, routeHints |-> << >>, features |-> {}, ignoredNodes |-> {"z"},
     ignoredPairs |-> {<<"x", "payee">>}, useMissionControl |-> FALSE]

MCQueryRequests ==
    {[Query EXCEPT !.source = s, !.dest = d, !.cltvLimit = l, !.finalCltv = f, !.blinded = b,
                   !.sat = a, !.msat = m, !.feeLimit = fee] :
        s \in {{}, {"x"}}, d \in {{}, {"payee"}}, l \in {0, 1, 3, 20, 25}, f \in {-6, 0, 3, 8},
        b \in {<< >>, <<"valid">>, <<"valid", "valid">>}, a \in {0, 2, 11}, m \in {0, 1},
        fee \in {[kind |-> "none"], [kind |-> "fixed", of |-> -1], [kind |-> "percent", of |-> 50]}}

Hop(node, base, ppm, cltv) == [node |-> node, base |-> base, ppm |-> ppm, cltv |-> cltv]

\* Which of two hints of an LSP is dearer depends on the amount.
MCHints ==
    LET ends == {Hop("lsp", 3, 0, 2), Hop("lsp", 0, 5, 0), Hop("n", 0, 0, 1)}
    IN  {<< >>} \cup {<<h>> : h \in ends} \cup {<<Hop("n", 1, 1, 4), h>> : h \in ends}

MCProbedInvoices ==
    [amount : {{}, {0}, {2}, {8}, {30}}, addr : {{}, {"addr"}}, payee : {"payee", "self"},
     hints : UNION {[1 .. n -> MCHints] : n \in 0 .. 3}, cltv : {0, 3, 21, 32}, features : {{}}]

Known == [amt : {1, 3, 5}, time : {1}]
MCResults ==
    [fail : Known \cup [amt : {0}, time : {0, 1}], success : Known \cup [amt : {0}, time : {0}]]

MCMCConfigs ==
    [model : {"apriori", "bimodal"}, max : {1}, relax : {3, 4}, time : {0, 5}, weight : {1, 2}]
=============================================================================
