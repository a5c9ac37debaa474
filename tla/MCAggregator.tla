---------------------------- MODULE MCAggregator ----------------------------
EXTENDS Aggregator
=============================================================================
