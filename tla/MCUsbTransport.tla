--------------------------- MODULE MCUsbTransport ----------------------------
EXTENDS UsbTransport
=============================================================================
