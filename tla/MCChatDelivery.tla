--------------------------- MODULE MCChatDelivery ---------------------------
EXTENDS ChatDelivery
=============================================================================
