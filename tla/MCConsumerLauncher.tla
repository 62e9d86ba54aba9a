-------------------------- MODULE MCConsumerLauncher --------------------------
EXTENDS ConsumerLauncher
===============================================================================
