---------------------------- MODULE MCMapRendering ----------------------------
EXTENDS MapRendering

CONSTANTS roads, wms

\* The vector layer is prepared before the layer that waits for the network.
MCBaseFirst == <<roads, wms>>
=============================================================================
