--------------------------- MODULE MCMesiTwoLevel ----------------------------
(* Small systems for MesiTwoLevel, with two processors.                      *)
EXTENDS MesiTwoLevel

Setup(ops1, ops2, dmaTypes, victims) ==
  [ops |-> [c \in L1s |-> IF c = "c1" THEN ops1 ELSE ops2], dma |-> dmaTypes,
   victims |-> victims]

\* Data and instruction accesses with every replacement; DMA with the
\* replacement of dirty lines; load-linked without replacements in L2; locked
\* read-modify-writes with every replacement.
MCSetups ==
  {Setup({"Load", "Store"}, {"Ifetch", "Store"}, {}, BOOLEAN),
   Setup({"Load", "Store"}, {}, {"DMA_READ", "DMA_WRITE"}, {TRUE}),
   Setup({"Store", "Load_Linked"}, {"Store", "Load_Linked"}, {}, {}),
   Setup({"Locked_RMW_Read", "Locked_RMW_Write"},
         {"Locked_RMW_Read", "Locked_RMW_Write"}, {}, BOOLEAN)}

\* DMA and the replacement of clean lines.
DmaSetups == {Setup({"Load"}, {}, {"DMA_READ"}, BOOLEAN)}

\* Load-linked and replacements in L2.
LlscSetups == {Setup({"Store"}, {"Load_Linked"}, {}, BOOLEAN)}
=============================================================================
