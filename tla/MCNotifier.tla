------------------------------ MODULE MCNotifier ------------------------------
EXTENDS Notifier
===============================================================================
