----------------------------- MODULE MCFirmware -----------------------------
EXTENDS Firmware
=============================================================================
