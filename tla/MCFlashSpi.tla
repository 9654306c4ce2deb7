----------------------------- MODULE MCFlashSpi -----------------------------
EXTENDS FlashSpi
=============================================================================
